---- MODULE Spec2Model ----
(***************************************************************************)
(* A model of the tx2-link replication core: the delta compressor          *)
(* (src/src/compression.rs), the sliding-window and token-bucket rate      *)
(* limiters (src/src/rate_limit.rs), the schema registry                   *)
(* (src/src/schema.rs), the message headers (src/src/protocol.rs), the     *)
(* memory transport (src/src/transport.rs), the stream framing            *)
(* (src/src/serialization.rs) and the sync manager (src/src/sync.rs).      *)
(*                                                                         *)
(* Each component has its own specification (SpecDelta, SpecRL, SpecBytes, *)
(* SpecTB, SpecSync, SpecPlain, SpecRegistry, SpecShared, SpecLocks and    *)
(* SpecLocksFair, SpecSeq, SpecLink, SpecControl, SpecStream); the         *)
(* variables of the components a specification does not exercise keep      *)
(* their initial value.                                                    *)
(***************************************************************************)
EXTENDS Integers, Sequences, FiniteSets, TLC

VARIABLES
    \* ---- DeltaCompressor (compression.rs:5-8) and its observer
    previous_snapshot,  \* Option<WorldSnapshot>: <<>> is None, <<s>> is Some(s)
    enabled,            \* FieldCompressor.enabled
    delta,              \* the Delta returned by the last create_delta
    dc_op,              \* history: the last operation on the compressor
    dc_before,          \* history: previous_snapshot as it was before that operation
    dc_resets,          \* history: whether reset() was ever called
    dc_calls,           \* history: the number of create_delta calls so far
    dc_after_reset,     \* history: the last create_delta directly followed a reset()
    world,              \* the receiver's materialized world (deltas applied in order)
    \* ---- the clock: Instant::now(), in ticks of 25 ms
    now,
    \* ---- RateLimiter (rate_limit.rs:55-62) and the history of its calls
    rate_limiter,       \* the RateLimiter struct
    rl_calls,           \* history: every check_and_record call [timestamp, size, result]
    rl_reset_seen,      \* history: whether RateLimiter::reset() was ever called
    \* ---- TokenBucketRateLimiter (rate_limit.rs:214-221) and its history
    token_bucket,       \* the TokenBucketRateLimiter struct
    tb_calls,           \* history: every call [timestamp, op, result, tokens after]
    overflow_checks,    \* the build: TRUE when integer overflow panics (debug), FALSE when it wraps
    \* ---- SyncManager (sync.rs:81-92); its delta_compressor is
    \* previous_snapshot and enabled above
    sm_config,          \* config: SyncConfig
    transport,          \* transport: MemoryTransport
    sm_rate_limiter,    \* rate_limiter: Option<RateLimiter>, <<>> or <<limiter>>
    last_sync,          \* Option<Instant>, <<>> or <<instant>>
    sync_count,
    reconnect_attempts,
    schema_version,
    sm_calls,           \* history: every send call [op, snapshot, result, message, base, admissible]
    sm_transmitted,     \* history: the snapshot whose state was last put on the transport
    \* ---- SchemaRegistry (schema.rs:85-89): the storage shared by its clones
    schemas,            \* schemas: ComponentId -> ComponentSchema
    version_history,    \* version_history: ComponentId -> Vec<SchemaVersion>
    sr_ops,             \* history: number of registry operations called
    sr_last,            \* history: the last operation, its arguments and what it returned
    sr_first,           \* history: <<component, version>> -> the schema first registered for it
    sr_max,             \* history: component -> the largest version ever stored for it
    \* ---- threads calling the registry through clones of one handle
    lock_schemas,       \* RwLock of schemas: [writer, readers]
    lock_history,       \* RwLock of version_history: [writer, readers]
    threads,            \* thread -> [pc, schema, result]
    sr_reads,           \* history: what the concurrent get calls returned
    \* ---- MessageHeader::new's process-global counter (protocol.rs:34) and
    \* the threads creating messages
    SEQUENCE_COUNTER,   \* static mut SEQUENCE_COUNTER: u64
    seq_threads,        \* thread -> [pc, loaded, made]
    seq_created,        \* history: the headers created, [thread, msg_type, sequence]
    \* ---- two SyncManagers, each over its MemoryTransport, and what connects
    \* the two transports
    link,               \* manager -> [transport, previous_snapshot, enabled, ...]
    lk_calls,           \* history: every call on a manager and what it returned
    lk_world,           \* history: manager -> the world its consumer built from the events
    \* ---- a StreamingSerializer, the bytes it flushed and a
    \* StreamingDeserializer fed with them
    stream_serializer,  \* [format, buffer]
    stream_wire,        \* the flushed bytes not yet fed
    stream_deserializer,\* [format, buffer]
    st_written,         \* history: the messages write_message accepted
    st_read,            \* history: what try_read_message returned, none excluded
    st_last             \* history: the last call, [op, result, before, after]

dcVars == <<previous_snapshot, enabled, delta, dc_op, dc_before, dc_resets, dc_calls,
           dc_after_reset, world>>

rlVars == <<rate_limiter, rl_calls, rl_reset_seen>>

tbVars == <<token_bucket, tb_calls, overflow_checks>>

smVars == <<sm_config, transport, sm_rate_limiter, last_sync, sync_count,
            reconnect_attempts, schema_version, sm_calls, sm_transmitted>>

srVars == <<schemas, version_history, sr_ops, sr_last, sr_first, sr_max,
            lock_schemas, lock_history, threads, sr_reads>>

sqVars == <<SEQUENCE_COUNTER, seq_threads, seq_created>>

lkVars == <<link, lk_calls, lk_world>>

stVars == <<stream_serializer, stream_wire, stream_deserializer, st_written, st_read,
            st_last>>

vars == <<dcVars, now, rlVars, tbVars, smVars, srVars, sqVars, lkVars, stVars>>

(***************************************************************************)
(* Generic helpers                                                         *)
(***************************************************************************)
RECURSIVE Flatten(_)
Flatten(ss) == IF ss = <<>> THEN <<>> ELSE Head(ss) \o Flatten(Tail(ss))

Reverse(s) == [i \in 1..Len(s) |-> s[Len(s) + 1 - i]]

Range(s) == {s[i] : i \in DOMAIN s}

\* A map with key k set to v (HashMap::insert).
MapPut(m, k, v) == [x \in (DOMAIN m) \cup {k} |-> IF x = k THEN v ELSE m[x]]

\* A map without key k (HashMap::remove).
MapDel(m, k) == [x \in (DOMAIN m) \ {k} |-> m[x]]

(***************************************************************************)
(* protocol.rs: FieldValue, ComponentData, entities, DeltaChange           *)
(***************************************************************************)
\* FieldValue (the scalar variants the model uses).  nan marks a float NaN.
FNull == [tag |-> "Null", v |-> 0, nan |-> FALSE]
F64(n) == [tag |-> "F64", v |-> n, nan |-> FALSE]
F64NaN == [tag |-> "F64", v |-> 0, nan |-> TRUE]
I64(n) == [tag |-> "I64", v |-> n, nan |-> FALSE]
U64(n) == [tag |-> "U64", v |-> n, nan |-> FALSE]

\* #[derive(PartialEq)] on FieldValue: same variant and equal payload, where
\* f64 == is false on NaN.
FieldValueEq(a, b) == a = b /\ ~a.nan

EmptyMap == [k \in {} |-> FNull]

\* serde_json::Value members of an object.  A Number is PosInt (big when it
\* does not fit i64), NegInt or Float.
JNull == [jt |-> "Null", kind |-> "", n |-> 0, big |-> FALSE]
JNumber(kind, n) == [jt |-> "Number", kind |-> kind, n |-> n, big |-> FALSE]
JBigNumber(n) == [jt |-> "Number", kind |-> "PosInt", n |-> n, big |-> TRUE]

\* A JSON text is its parsed value and its formatting: two texts are the same
\* string iff they are the same record.
JsonText(kind, members, fmt) == [kind |-> kind, members |-> members, fmt |-> fmt]

\* ComponentData
Binary(b) == [tag |-> "Binary", bin |-> b, json |-> JsonText("invalid", EmptyMap, 0), fields |-> EmptyMap]
Json(t) == [tag |-> "Json", bin |-> <<>>, json |-> t, fields |-> EmptyMap]
Structured(m) == [tag |-> "Structured", bin |-> <<>>, json |-> JsonText("invalid", EmptyMap, 0), fields |-> m]

SerializedComponent(id, data) == [id |-> id, data |-> data]
SerializedEntity(id, components) == [id |-> id, components |-> components]
WorldSnapshot(entities, timestamp) == [entities |-> entities, timestamp |-> timestamp]

\* FieldDelta: old_value is Option<FieldValue> (has_old = FALSE is None).
FieldDelta(f, has_old, old, new) == [field_id |-> f, has_old |-> has_old, old_value |-> old, new_value |-> new]

NoData == Binary(<<>>)
EntityAdded(e) == [type |-> "EntityAdded", entity_id |-> e, component_id |-> "", data |-> NoData, fields |-> <<>>]
EntityRemoved(e) == [type |-> "EntityRemoved", entity_id |-> e, component_id |-> "", data |-> NoData, fields |-> <<>>]
ComponentAdded(e, c, d) == [type |-> "ComponentAdded", entity_id |-> e, component_id |-> c, data |-> d, fields |-> <<>>]
ComponentRemoved(e, c) == [type |-> "ComponentRemoved", entity_id |-> e, component_id |-> c, data |-> NoData, fields |-> <<>>]
ComponentUpdated(e, c, d) == [type |-> "ComponentUpdated", entity_id |-> e, component_id |-> c, data |-> d, fields |-> <<>>]
FieldsUpdated(e, c, fs) == [type |-> "FieldsUpdated", entity_id |-> e, component_id |-> c, data |-> NoData, fields |-> fs]

(***************************************************************************)
(* The ids of the model and the order a hashed map iterates them in.       *)
(* AHashMap / HashMap iteration order is unspecified: an operation takes   *)
(* it as an input, "fwd" or "rev" over the orders below.                   *)
(***************************************************************************)
EntityOrder == <<1, 2>>
ComponentOrder == <<"Position", "Velocity">>
FieldOrder == <<"x", "y">>
HashOrders == {"fwd", "rev"}

IterKeys(order, keys, ord) ==
    LET s == SelectSeq(order, LAMBDA k : k \in keys)
    IN  IF ord = "fwd" THEN s ELSE Reverse(s)

\* iter().map(|e| (e.id, e)).collect(): a later entry with the same id wins.
IndexById(items) ==
    [id \in {items[i].id : i \in DOMAIN items} |->
        items[CHOOSE i \in DOMAIN items :
                 /\ items[i].id = id
                 /\ \A j \in DOMAIN items : items[j].id = id => j <= i]]

(***************************************************************************)
(* compression.rs: FieldCompressor                                         *)
(***************************************************************************)
\* json_to_field_value (compression.rs:310-336), on the JSON values of the
\* model: null and numbers.
json_to_field_value(value) ==
    IF value.jt = "Null" THEN FNull
    ELSE IF (value.kind = "PosInt" /\ ~value.big) \/ value.kind = "NegInt" THEN I64(value.n)
    ELSE IF value.kind = "PosInt" THEN U64(value.n)
    ELSE F64(value.n)

\* A Structured/Structured arm that reports no removed field.
StructuredFieldDeltas_no_removed(prev_fields, curr_fields, ord) ==
    LET currKeys == IterKeys(FieldOrder, DOMAIN curr_fields, ord)
        forCurr(f) ==
            IF f \in DOMAIN prev_fields
            THEN IF ~FieldValueEq(prev_fields[f], curr_fields[f])
                 THEN <<FieldDelta(f, TRUE, prev_fields[f], curr_fields[f])>>
                 ELSE <<>>
            ELSE <<FieldDelta(f, FALSE, FNull, curr_fields[f])>>
    IN  Flatten([i \in 1..Len(currKeys) |-> forCurr(currKeys[i])])

\* The Structured/Structured arm of compute_field_deltas (compression.rs:222-254).
StructuredFieldDeltas(prev_fields, curr_fields, ord) ==
    LET currKeys == IterKeys(FieldOrder, DOMAIN curr_fields, ord)
        prevKeys == IterKeys(FieldOrder, DOMAIN prev_fields, ord)
        forCurr(f) ==
            IF f \in DOMAIN prev_fields
            THEN IF ~FieldValueEq(prev_fields[f], curr_fields[f])
                 THEN <<FieldDelta(f, TRUE, prev_fields[f], curr_fields[f])>>
                 ELSE <<>>
            ELSE <<FieldDelta(f, FALSE, FNull, curr_fields[f])>>
        forPrev(f) ==
            IF f \notin DOMAIN curr_fields
            THEN <<FieldDelta(f, TRUE, prev_fields[f], FNull)>>
            ELSE <<>>
    IN  Flatten([i \in 1..Len(currKeys) |-> forCurr(currKeys[i])])
            \o Flatten([i \in 1..Len(prevKeys) |-> forPrev(prevKeys[i])])

\* The Json/Json arm, both texts parsed to objects (compression.rs:261-291).
\* A serde_json object iterates its keys in sorted order.
JsonFieldDeltas(prev_obj, curr_obj) ==
    LET currKeys == IterKeys(FieldOrder, DOMAIN curr_obj, "fwd")
        prevKeys == IterKeys(FieldOrder, DOMAIN prev_obj, "fwd")
        forCurr(k) ==
            IF k \in DOMAIN prev_obj
            THEN IF prev_obj[k] # curr_obj[k]
                 THEN <<FieldDelta(k, TRUE, json_to_field_value(prev_obj[k]),
                                   json_to_field_value(curr_obj[k]))>>
                 ELSE <<>>
            ELSE <<FieldDelta(k, FALSE, FNull, json_to_field_value(curr_obj[k]))>>
        forPrev(k) ==
            IF k \notin DOMAIN curr_obj
            THEN <<FieldDelta(k, TRUE, json_to_field_value(prev_obj[k]), FNull)>>
            ELSE <<>>
    IN  Flatten([i \in 1..Len(currKeys) |-> forCurr(currKeys[i])])
            \o Flatten([i \in 1..Len(prevKeys) |-> forPrev(prevKeys[i])])

\* A field diff that reports every field of a Structured component as added,
\* whatever the previous data was.
compute_field_deltas_any_previous(en, prev, curr, ord) ==
    IF en /\ curr.data.tag = "Structured"
    THEN [some |-> TRUE,
          deltas |-> StructuredFieldDeltas(EmptyMap, curr.data.fields, ord)]
    ELSE [some |-> FALSE, deltas |-> <<>>]

\* FieldCompressor::compute_field_deltas (compression.rs:212-302):
\* Option<Vec<FieldDelta>> as [some, deltas].
compute_field_deltas(en, prev, curr, ord) ==
    IF ~en THEN [some |-> FALSE, deltas |-> <<>>]
    ELSE IF prev.data.tag = "Structured" /\ curr.data.tag = "Structured"
    THEN [some |-> TRUE, deltas |-> StructuredFieldDeltas(prev.data.fields, curr.data.fields, ord)]
    ELSE IF prev.data.tag = "Json" /\ curr.data.tag = "Json"
    THEN IF prev.data.json.kind # "invalid" /\ curr.data.json.kind # "invalid"
         THEN IF prev.data.json.kind = "object" /\ curr.data.json.kind = "object"
              THEN [some |-> TRUE,
                    deltas |-> JsonFieldDeltas(prev.data.json.members, curr.data.json.members)]
              ELSE [some |-> FALSE, deltas |-> <<>>]
         ELSE [some |-> FALSE, deltas |-> <<>>]
    ELSE [some |-> FALSE, deltas |-> <<>>]

(***************************************************************************)
(* compression.rs: DeltaCompressor                                         *)
(***************************************************************************)
\* HashMap<FieldId, FieldValue> == : same keys, and equal values under
\* FieldValue's PartialEq.
StructuredEq(a_map, b_map) ==
    /\ DOMAIN a_map = DOMAIN b_map
    /\ \A k \in DOMAIN a_map : FieldValueEq(a_map[k], b_map[k])

\* components_equal without its Json arm: two Json components fall to `_ => false`.
components_equal_no_json(a, b) ==
    IF a.id # b.id THEN FALSE
    ELSE IF a.data.tag = "Binary" /\ b.data.tag = "Binary" THEN a.data.bin = b.data.bin
    ELSE IF a.data.tag = "Structured" /\ b.data.tag = "Structured"
    THEN StructuredEq(a.data.fields, b.data.fields)
    ELSE FALSE

\* DeltaCompressor::components_equal (compression.rs:163-174)
components_equal(a, b) ==
    IF a.id # b.id THEN FALSE
    ELSE IF a.data.tag = "Binary" /\ b.data.tag = "Binary" THEN a.data.bin = b.data.bin
    ELSE IF a.data.tag = "Json" /\ b.data.tag = "Json" THEN a.data.json = b.data.json
    ELSE IF a.data.tag = "Structured" /\ b.data.tag = "Structured"
    THEN StructuredEq(a.data.fields, b.data.fields)
    ELSE FALSE

\* A component diff that never reports a removed component.
compute_component_changes_no_removed(en, entity_id, prev_entity, curr_entity, ord) ==
    LET prev_components == IndexById(prev_entity.components)
        curr_components == IndexById(curr_entity.components)
        currKeys == IterKeys(ComponentOrder, DOMAIN curr_components, ord)
        forCurr(c) ==
            IF c \in DOMAIN prev_components
            THEN IF ~components_equal(prev_components[c], curr_components[c])
                 THEN <<ComponentUpdated(entity_id, c, curr_components[c].data)>>
                 ELSE <<>>
            ELSE <<ComponentAdded(entity_id, c, curr_components[c].data)>>
    IN  Flatten([i \in 1..Len(currKeys) |-> forCurr(currKeys[i])])

\* DeltaCompressor::compute_component_changes (compression.rs:105-161)
compute_component_changes(en, entity_id, prev_entity, curr_entity, ord) ==
    LET prev_components == IndexById(prev_entity.components)
        curr_components == IndexById(curr_entity.components)
        currKeys == IterKeys(ComponentOrder, DOMAIN curr_components, ord)
        prevKeys == IterKeys(ComponentOrder, DOMAIN prev_components, ord)
        forCurr(c) ==
            IF c \in DOMAIN prev_components
            THEN IF ~components_equal(prev_components[c], curr_components[c])
                 THEN LET fd == compute_field_deltas(en, prev_components[c], curr_components[c], ord)
                      IN  IF en /\ fd.some /\ fd.deltas # <<>>
                          THEN <<FieldsUpdated(entity_id, c, fd.deltas)>>
                          ELSE <<ComponentUpdated(entity_id, c, curr_components[c].data)>>
                 ELSE <<>>
            ELSE <<ComponentAdded(entity_id, c, curr_components[c].data)>>
        forPrev(c) ==
            IF c \notin DOMAIN curr_components
            THEN <<ComponentRemoved(entity_id, c)>>
            ELSE <<>>
    IN  Flatten([i \in 1..Len(currKeys) |-> forCurr(currKeys[i])])
            \o Flatten([i \in 1..Len(prevKeys) |-> forPrev(prevKeys[i])])

\* The changes of an added entity with its EntityAdded pushed last.
AddedEntityChanges_components_first(entity) ==
    [i \in 1..Len(entity.components) |->
        ComponentAdded(entity.id, entity.components[i].id, entity.components[i].data)]
        \o <<EntityAdded(entity.id)>>

\* EntityAdded followed by one ComponentAdded per component, in the entity's
\* component order (compression.rs:50-60 and 80-90).
AddedEntityChanges(entity) ==
    <<EntityAdded(entity.id)>>
        \o [i \in 1..Len(entity.components) |->
               ComponentAdded(entity.id, entity.components[i].id, entity.components[i].data)]

\* An initial delta that walks the entities from the last to the first.
create_initial_delta_reversed(snapshot) ==
    Flatten([i \in 1..Len(snapshot.entities) |->
                <<EntityAdded(snapshot.entities[Len(snapshot.entities) + 1 - i].id)>>
                \o [j \in 1..Len(snapshot.entities[Len(snapshot.entities) + 1 - i].components) |->
                       ComponentAdded(snapshot.entities[Len(snapshot.entities) + 1 - i].id,
                                      snapshot.entities[Len(snapshot.entities) + 1 - i].components[j].id,
                                      snapshot.entities[Len(snapshot.entities) + 1 - i].components[j].data)]])

\* DeltaCompressor::create_initial_delta (compression.rs:46-64)
create_initial_delta(snapshot) ==
    Flatten([i \in 1..Len(snapshot.entities) |-> AddedEntityChanges(snapshot.entities[i])])

\* An entity diff that never reports a removed entity.
compute_changes_no_removed(en, prev, curr, ord) ==
    LET prev_entities == IndexById(prev.entities)
        curr_entities == IndexById(curr.entities)
        currKeys == IterKeys(EntityOrder, DOMAIN curr_entities, ord)
        forCurr(e) ==
            IF e \in DOMAIN prev_entities
            THEN compute_component_changes(en, e, prev_entities[e], curr_entities[e], ord)
            ELSE AddedEntityChanges(curr_entities[e])
    IN  Flatten([i \in 1..Len(currKeys) |-> forCurr(currKeys[i])])

\* DeltaCompressor::compute_changes (compression.rs:66-103)
compute_changes(en, prev, curr, ord) ==
    LET prev_entities == IndexById(prev.entities)
        curr_entities == IndexById(curr.entities)
        currKeys == IterKeys(EntityOrder, DOMAIN curr_entities, ord)
        prevKeys == IterKeys(EntityOrder, DOMAIN prev_entities, ord)
        forCurr(e) ==
            IF e \in DOMAIN prev_entities
            THEN compute_component_changes(en, e, prev_entities[e], curr_entities[e], ord)
            ELSE AddedEntityChanges(curr_entities[e])
        forPrev(e) ==
            IF e \notin DOMAIN curr_entities THEN <<EntityRemoved(e)>> ELSE <<>>
    IN  Flatten([i \in 1..Len(currKeys) |-> forCurr(currKeys[i])])
            \o Flatten([i \in 1..Len(prevKeys) |-> forPrev(prevKeys[i])])

\* The Delta create_delta returns (compression.rs:25-44), from the compressor's
\* previous_snapshot prev (an Option) and the current snapshot.
create_delta(en, prev, current_snapshot, ord) ==
    [changes |-> IF prev # <<>>
                 THEN compute_changes(en, prev[1], current_snapshot, ord)
                 ELSE create_initial_delta(current_snapshot),
     timestamp |-> current_snapshot.timestamp,
     base_timestamp |-> IF prev # <<>> THEN prev[1].timestamp ELSE 0]

\* A reset that keeps the stored snapshot.
reset_previous_keep(prev) == prev

\* DeltaCompressor::reset (compression.rs:176-178): the new previous_snapshot.
reset_previous(prev) == <<>>

(***************************************************************************)
(* The receiver of the deltas: it starts from the empty world and applies  *)
(* each change in order.  In a FieldsUpdated change a FieldDelta with      *)
(* old_value = None adds the field, one with new_value = Null removes it,  *)
(* any other sets it.  A world maps entity ids to maps from component ids  *)
(* to ComponentData.                                                       *)
(***************************************************************************)
EmptyWorld == [e \in {} |-> [c \in {} |-> NoData]]
NoComponents == [c \in {} |-> NoData]

\* FieldValue back to a JSON value, the inverse of json_to_field_value.
field_value_to_json(v) ==
    IF v.tag = "Null" THEN JNull
    ELSE IF v.tag = "I64" THEN JNumber(IF v.v < 0 THEN "NegInt" ELSE "PosInt", v.v)
    ELSE IF v.tag = "U64" THEN JBigNumber(v.v)
    ELSE JNumber("Float", v.v)

RECURSIVE ApplyFieldDeltas(_, _, _)
ApplyFieldDeltas(m, fds, asJson) ==
    IF fds = <<>> THEN m
    ELSE LET fd == Head(fds)
             val == IF asJson THEN field_value_to_json(fd.new_value) ELSE fd.new_value
             m1 == IF ~fd.has_old THEN MapPut(m, fd.field_id, val)
                   ELSE IF fd.new_value = FNull THEN MapDel(m, fd.field_id)
                   ELSE MapPut(m, fd.field_id, val)
         IN  ApplyFieldDeltas(m1, Tail(fds), asJson)

ApplyFields(data, fds) ==
    IF data.tag = "Structured" THEN Structured(ApplyFieldDeltas(data.fields, fds, FALSE))
    ELSE IF data.tag = "Json" /\ data.json.kind = "object"
    THEN Json(JsonText("object", ApplyFieldDeltas(data.json.members, fds, TRUE), 0))
    ELSE data

ApplyChange(w, ch) ==
    LET e == ch.entity_id
        c == ch.component_id
    IN  CASE ch.type = "EntityAdded" ->
                IF e \in DOMAIN w THEN w ELSE MapPut(w, e, NoComponents)
          [] ch.type = "EntityRemoved" -> MapDel(w, e)
          [] ch.type \in {"ComponentAdded", "ComponentUpdated"} ->
                IF e \in DOMAIN w THEN MapPut(w, e, MapPut(w[e], c, ch.data)) ELSE w
          [] ch.type = "ComponentRemoved" ->
                IF e \in DOMAIN w THEN MapPut(w, e, MapDel(w[e], c)) ELSE w
          [] ch.type = "FieldsUpdated" ->
                IF e \in DOMAIN w /\ c \in DOMAIN w[e]
                THEN MapPut(w, e, MapPut(w[e], c, ApplyFields(w[e][c], ch.fields)))
                ELSE w

RECURSIVE ApplyChanges(_, _)
ApplyChanges(w, changes) ==
    IF changes = <<>> THEN w ELSE ApplyChanges(ApplyChange(w, Head(changes)), Tail(changes))

\* The entities, components and field values of a snapshot, without the
\* order of its lists.
ContentOf(entities) ==
    LET byId == IndexById(entities)
    IN  [e \in DOMAIN byId |->
            LET comps == IndexById(byId[e].components)
            IN  [c \in DOMAIN comps |-> comps[c].data]]

\* A JSON object text stands for its member values, whatever its formatting.
CanonData(data) ==
    IF data.tag = "Json" /\ data.json.kind = "object"
    THEN Json(JsonText("object", data.json.members, 0))
    ELSE data

CanonWorld(w) == [e \in DOMAIN w |-> [c \in DOMAIN w[e] |-> CanonData(w[e][c])]]

(***************************************************************************)
(* The snapshots fed to the compressor                                     *)
(***************************************************************************)
MaxSnapshots == 3

Bin1 == Binary(<<1>>)
Bin2 == Binary(<<2>>)

ComponentLists ==
    { <<>>,
      <<SerializedComponent("Position", Bin1)>>,
      <<SerializedComponent("Velocity", Bin2), SerializedComponent("Position", Bin1)>> }

StructuredMaps ==
    { EmptyMap,
      [x |-> F64(10)], [x |-> F64(15)], [x |-> FNull], [x |-> F64NaN],
      [x |-> F64(10), y |-> F64(20)], [x |-> F64(15), y |-> F64(20)] }

JsonTexts ==
    { JsonText("object", [x |-> JNumber("PosInt", 1)], 0),
      JsonText("object", [x |-> JNumber("PosInt", 1)], 1),
      JsonText("object", [x |-> JNumber("PosInt", 2)], 0),
      JsonText("object", [x |-> JNumber("Float", 10), y |-> JNumber("Float", 20)], 0),
      JsonText("array", EmptyMap, 0),
      JsonText("invalid", EmptyMap, 1) }

ComponentDatas ==
    {Bin2} \cup {Structured(m) : m \in StructuredMaps} \cup {Json(t) : t \in JsonTexts}

\* Entity lists with unique entity ids and unique component ids per entity:
\* every arrangement of the entities 1 and 2 over ComponentLists, and entity 1
\* with one Position component over ComponentDatas.
EntityLists ==
    {<<>>}
    \cup {<<SerializedEntity(e, cs)>> : e \in Range(EntityOrder), cs \in ComponentLists}
    \cup {<<SerializedEntity(e[1], cs1), SerializedEntity(e[2], cs2)>> :
             e \in {<<1, 2>>, <<2, 1>>}, cs1 \in ComponentLists, cs2 \in ComponentLists}
    \cup {<<SerializedEntity(1, <<SerializedComponent("Position", d)>>)>> : d \in ComponentDatas}

NoDelta == [changes |-> <<>>, timestamp |-> 0, base_timestamp |-> 0]

(***************************************************************************)
(* rate_limit.rs: RateLimiter (sliding window)                             *)
(*                                                                         *)
(* Instants and Durations are counted in ticks of 25 ms.  The clock starts *)
(* at 0; a cutoff before the start is a negative number (the code's        *)
(* Instant is far enough from its origin for now - window_duration).       *)
(***************************************************************************)
\* Duration::from_millis(100), the burst window (rate_limit.rs:164), in ticks.
BurstWindow == 4

RateLimitConfig(max_messages, max_bytes, burst, window) ==
    [max_messages_per_second |-> max_messages, max_bytes_per_second |-> max_bytes,
     burst_size |-> burst, window_duration |-> window]

MessageRecord(timestamp, size) == [timestamp |-> timestamp, size |-> size]

\* RateLimiter::new (rate_limit.rs:65-74)
NewRateLimiter(config) ==
    [config |-> config, message_history |-> <<>>, byte_history |-> <<>>,
     total_messages |-> 0, total_bytes |-> 0, total_rejected |-> 0]

RECURSIVE SumSizes(_)
SumSizes(records) ==
    IF records = <<>> THEN 0 ELSE Head(records).size + SumSizes(Tail(records))

\* A cutoff one tick too early: records just older than the window still count.
window_cutoff_early(config, at) == at - config.window_duration - 1

\* let cutoff = now - self.config.window_duration (rate_limit.rs:129, 149, 156)
window_cutoff(config, at) == at - config.window_duration

\* while let Some(record) = history.front() { if record.timestamp < cutoff
\* { pop_front } else { break } } (rate_limit.rs:131-137)
RECURSIVE PopOld(_, _)
PopOld(history, cutoff) ==
    IF history # <<>> /\ Head(history).timestamp < cutoff
    THEN PopOld(Tail(history), cutoff)
    ELSE history

\* RateLimiter::cleanup_old_records (rate_limit.rs:128-146)
cleanup_old_records(l, at) ==
    [l EXCEPT !.message_history = PopOld(@, window_cutoff(l.config, at)),
              !.byte_history = PopOld(@, window_cutoff(l.config, at))]

\* RateLimiter::count_messages_in_window (rate_limit.rs:148-153)
count_messages_in_window(l, at) ==
    Len(SelectSeq(l.message_history, LAMBDA r : r.timestamp >= window_cutoff(l.config, at)))

\* RateLimiter::count_bytes_in_window (rate_limit.rs:155-161)
count_bytes_in_window(l, at) ==
    SumSizes(SelectSeq(l.byte_history, LAMBDA r : r.timestamp >= window_cutoff(l.config, at)))

\* RateLimiter::count_recent_burst (rate_limit.rs:163-170)
count_recent_burst(l, at) ==
    Len(SelectSeq(l.message_history, LAMBDA r : r.timestamp >= at - BurstWindow))

\* RateLimiter::record_message (rate_limit.rs:115-126)
record_message(l, timestamp, size) ==
    [l EXCEPT !.message_history = Append(@, MessageRecord(timestamp, size)),
              !.byte_history = Append(@, MessageRecord(timestamp, size)),
              !.total_messages = @ + 1,
              !.total_bytes = @ + size]

Rejected(l, why) == [result |-> why, limiter |-> [l EXCEPT !.total_rejected = @ + 1]]

\* check_and_record whose burst rejection forgets total_rejected += 1.
check_and_record_burst_uncounted(l, at, message_size) ==
    LET l1 == cleanup_old_records(l, at)
    IN  IF count_messages_in_window(l1, at) >= l1.config.max_messages_per_second
        THEN Rejected(l1, "MessageRate")
        ELSE IF count_bytes_in_window(l1, at) + message_size > l1.config.max_bytes_per_second
        THEN Rejected(l1, "ByteRate")
        ELSE IF count_recent_burst(l1, at) >= l1.config.burst_size
        THEN [result |-> "Burst", limiter |-> l1]
        ELSE [result |-> "Ok", limiter |-> record_message(l1, at, message_size)]

\* check_and_record whose byte check is >= : a call that makes the sum equal
\* to the budget is rejected.
check_and_record_bytes_ge(l, at, message_size) ==
    LET l1 == cleanup_old_records(l, at)
    IN  IF count_messages_in_window(l1, at) >= l1.config.max_messages_per_second
        THEN Rejected(l1, "MessageRate")
        ELSE IF count_bytes_in_window(l1, at) + message_size >= l1.config.max_bytes_per_second
        THEN Rejected(l1, "ByteRate")
        ELSE IF count_recent_burst(l1, at) >= l1.config.burst_size
        THEN Rejected(l1, "Burst")
        ELSE [result |-> "Ok", limiter |-> record_message(l1, at, message_size)]

\* check_and_record with the byte check made before the message-count check.
check_and_record_bytes_first(l, at, message_size) ==
    LET l1 == cleanup_old_records(l, at)
    IN  IF count_bytes_in_window(l1, at) + message_size > l1.config.max_bytes_per_second
        THEN Rejected(l1, "ByteRate")
        ELSE IF count_messages_in_window(l1, at) >= l1.config.max_messages_per_second
        THEN Rejected(l1, "MessageRate")
        ELSE IF count_recent_burst(l1, at) >= l1.config.burst_size
        THEN Rejected(l1, "Burst")
        ELSE [result |-> "Ok", limiter |-> record_message(l1, at, message_size)]

\* RateLimiter::check_and_record (rate_limit.rs:76-109), called at Instant `at`:
\* the result ("Ok", or which RateLimitExceeded message) and the limiter after.
check_and_record(l, at, message_size) ==
    LET l1 == cleanup_old_records(l, at)
    IN  IF count_messages_in_window(l1, at) >= l1.config.max_messages_per_second
        THEN Rejected(l1, "MessageRate")
        ELSE IF count_bytes_in_window(l1, at) + message_size > l1.config.max_bytes_per_second
        THEN Rejected(l1, "ByteRate")
        ELSE IF count_recent_burst(l1, at) >= l1.config.burst_size
        THEN Rejected(l1, "Burst")
        ELSE [result |-> "Ok", limiter |-> record_message(l1, at, message_size)]

\* RateLimiter::reset (rate_limit.rs:172-175)
reset_histories(l) == [l EXCEPT !.message_history = <<>>, !.byte_history = <<>>]

\* The largest value of the byte counters' type (u64::MAX), with the width
\* of the type scaled down to 4 bits.
U64Max == 15

\* What a u64 holds after a sum that wrapped.
wrap_u64(n) == n % (U64Max + 1)

\* RateLimiter::record_message (rate_limit.rs:115-126) with the width of
\* total_bytes: the records are pushed and total_messages is counted before
\* total_bytes += size, which panics in a build with overflow checks when the
\* sum passes u64::MAX and wraps otherwise.
record_message_u64(l, timestamp, size, checks) ==
    LET pushed == [l EXCEPT !.message_history = Append(@, MessageRecord(timestamp, size)),
                            !.byte_history = Append(@, MessageRecord(timestamp, size)),
                            !.total_messages = @ + 1]
    IN  IF checks /\ l.total_bytes + size > U64Max
        THEN [result |-> "Panic", limiter |-> pushed]
        ELSE [result |-> "Ok",
              limiter |-> [pushed EXCEPT !.total_bytes = wrap_u64(@ + size)]]

\* RateLimiter::check_and_record (rate_limit.rs:76-109) with the width of its
\* u64 sums: the sum of the sizes in the window (rate_limit.rs:157-160) and
\* bytes_in_window + message_size (rate_limit.rs:91) panic in a build with
\* overflow checks when they pass u64::MAX and wrap otherwise.
check_and_record_u64(l, at, message_size, checks) ==
    LET l1 == cleanup_old_records(l, at)
        bytes_in_window == count_bytes_in_window(l1, at)
        with_message == wrap_u64(bytes_in_window) + message_size
    IN  IF checks /\ bytes_in_window > U64Max
        THEN [result |-> "Panic", limiter |-> l1]
        ELSE IF count_messages_in_window(l1, at) >= l1.config.max_messages_per_second
        THEN Rejected(l1, "MessageRate")
        ELSE IF checks /\ with_message > U64Max
        THEN [result |-> "Panic", limiter |-> l1]
        ELSE IF wrap_u64(with_message) > l1.config.max_bytes_per_second
        THEN Rejected(l1, "ByteRate")
        ELSE IF count_recent_burst(l1, at) >= l1.config.burst_size
        THEN Rejected(l1, "Burst")
        ELSE record_message_u64(l1, at, message_size, checks)

(***************************************************************************)
(* rate_limit.rs: TokenBucketRateLimiter                                   *)
(***************************************************************************)
\* One second is ten burst windows of 100 ms.
TicksPerSecond == 10 * BurstWindow

\* TokenBucketRateLimiter::new (rate_limit.rs:224-233), created at `at`.
NewTokenBucket(capacity, refill_rate, at) ==
    [capacity |-> capacity, tokens |-> capacity, refill_rate |-> refill_rate,
     last_refill |-> at, total_messages |-> 0, total_rejected |-> 0]

Min(a, b) == IF a <= b THEN a ELSE b

\* The largest value of the token counter's type (u32::MAX), with the width of
\* the counter scaled down to 4 bits; rates and times are not scaled.
U32Max == 15

\* (elapsed_secs * self.refill_rate as f64) as u32 (rate_limit.rs:257-260):
\* the product truncated to whole tokens; the cast saturates at u32::MAX.
tokens_to_add(b, at) ==
    Min(((at - b.last_refill) * b.refill_rate) \div TicksPerSecond, U32Max)

\* self.tokens + tokens_to_add in the counter's width (rate_limit.rs:263):
\* a sum above u32::MAX panics in a build with overflow checks and wraps
\* around in one without.
Refilled(b, at, checks) ==
    IF b.tokens + tokens_to_add(b, at) > U32Max /\ checks
    THEN [panicked |-> TRUE, bucket |-> b]
    ELSE [panicked |-> FALSE,
          bucket |-> [b EXCEPT !.tokens = Min((@ + tokens_to_add(b, at)) % (U32Max + 1),
                                              b.capacity),
                               !.last_refill = at]]

\* A refill that stamps last_refill even when it adds no token.
refill_always_stamps(b, at, checks) == Refilled(b, at, checks)

\* TokenBucketRateLimiter::refill (rate_limit.rs:255-266)
refill(b, at, checks) ==
    IF tokens_to_add(b, at) > 0
    THEN Refilled(b, at, checks)
    ELSE [panicked |-> FALSE, bucket |-> b]

\* TokenBucketRateLimiter::check_and_consume (rate_limit.rs:235-249)
check_and_consume(b, at, checks) ==
    LET r == refill(b, at, checks)
        b1 == r.bucket
    IN  IF r.panicked
        THEN [result |-> "Panic", bucket |-> b]
        ELSE IF b1.tokens = 0
        THEN [result |-> "Err", bucket |-> [b1 EXCEPT !.total_rejected = @ + 1]]
        ELSE [result |-> "Ok",
              bucket |-> [b1 EXCEPT !.tokens = @ - 1, !.total_messages = @ + 1]]

\* TokenBucketRateLimiter::reset (rate_limit.rs:268-271)
reset_bucket(b, at) == [b EXCEPT !.tokens = b.capacity, !.last_refill = at]

(***************************************************************************)
(* transport.rs: MemoryTransport; protocol.rs: Message; sync.rs: SyncManager *)
(***************************************************************************)
\* MemoryTransport::new (transport.rs:33-40).  The buffers hold the messages
\* themselves; their byte encoding is not modelled.
NewMemoryTransport == [connected |-> TRUE, send_buffer |-> <<>>, receive_buffer |-> <<>>]

\* MemoryTransport::send when connected (transport.rs:63-71)
transport_send(t, message) == [t EXCEPT !.send_buffer = Append(@, message)]

\* MemoryTransport::close (transport.rs:87-92)
transport_close(t) == [connected |-> FALSE, send_buffer |-> <<>>, receive_buffer |-> <<>>]

CountChanges(changes, types) == Len(SelectSeq(changes, LAMBDA c : c.type \in types))

RECURSIVE CountComponents(_)
CountComponents(entities) ==
    IF entities = <<>> THEN 0
    ELSE Len(Head(entities).components) + CountComponents(Tail(entities))

\* Message::snapshot (protocol.rs:258-277); the header's timestamp, id and
\* sequence are left out.
MessageSnapshot(entities, world_time, version) ==
    [msg_type |-> "Snapshot", schema_version |-> version,
     payload |-> [entities |-> entities,
                  metadata |-> [world_time |-> world_time,
                                entity_count |-> Len(entities),
                                component_count |-> CountComponents(entities)]]]

\* Message::delta (protocol.rs:279-305)
MessageDelta(changes, base_timestamp, version) ==
    [msg_type |-> "Delta", schema_version |-> version,
     payload |-> [changes |-> changes, base_timestamp |-> base_timestamp,
                  metadata |-> [change_count |-> Len(changes),
                                entities_added |-> CountChanges(changes, {"EntityAdded"}),
                                entities_removed |-> CountChanges(changes, {"EntityRemoved"}),
                                components_updated |->
                                   CountChanges(changes, {"ComponentUpdated", "FieldsUpdated"})]]]

\* Message::request_snapshot (protocol.rs:307-313)
MessageRequestSnapshot(version) ==
    [msg_type |-> "RequestSnapshot", schema_version |-> version,
     payload |-> [type |-> "RequestSnapshot"]]

\* Message::ack (protocol.rs:315-321)
MessageAck(ack_id, version) ==
    [msg_type |-> "Ack", schema_version |-> version, payload |-> [ack_id |-> ack_id]]

\* Message::ping (protocol.rs:323-325)
MessagePing(version) ==
    [msg_type |-> "Ping", schema_version |-> version, payload |-> [type |-> "Ping"]]

\* let estimated_size = 1024u64 (sync.rs:134, 168)
estimated_size == 1024

SyncConfig(rate_limiting, rate_limit_config, field_compression, auto_reconnect, max_attempts) ==
    [enable_rate_limiting |-> rate_limiting, rate_limit_config |-> rate_limit_config,
     enable_field_compression |-> field_compression, auto_reconnect |-> auto_reconnect,
     max_reconnect_attempts |-> max_attempts]

\* A send that never asks the limiter.
limiter_check_skipped(limiter, at) == [result |-> "Ok", limiter |-> limiter]

\* if let Some(limiter) = &mut self.rate_limiter { limiter.check_and_record(..)? }
\* (sync.rs:135-137, 169-171)
limiter_check(limiter, at) ==
    IF limiter = <<>>
    THEN [result |-> "Ok", limiter |-> limiter]
    ELSE [result |-> check_and_record(limiter[1], at, estimated_size).result,
          limiter |-> <<check_and_record(limiter[1], at, estimated_size).limiter>>]

\* A reconnect bookkeeping that counts every send on a closed transport.
attempts_after_closed_uncapped(config, attempts) ==
    IF config.auto_reconnect THEN attempts + 1 ELSE attempts

\* The reconnect bookkeeping of a send on a closed transport (sync.rs:118-125,
\* 149-156).
attempts_after_closed(config, attempts) ==
    IF config.auto_reconnect /\ attempts < config.max_reconnect_attempts
    THEN attempts + 1
    ELSE attempts

\* A send_delta that puts every delta on the transport.
nothing_to_send_never(computed) == FALSE

\* if delta.changes.is_empty() { return Ok(()) } (sync.rs:160-162)
nothing_to_send(computed) == computed.changes = <<>>

\* A bookkeeping that leaves sync_count alone.
after_send_uncounted(count, at) ==
    [last_sync |-> <<at>>, sync_count |-> count, reconnect_attempts |-> 0]

\* The bookkeeping after transport.send returned Ok (sync.rs:141-143, 175-177)
after_send(count, at) ==
    [last_sync |-> <<at>>, sync_count |-> count + 1, reconnect_attempts |-> 0]

\* A call record of the history.
SyncCall(op, snapshot, result, message, limiter, at) ==
    [op |-> op, snapshot |-> snapshot, result |-> result, message |-> message,
     base |-> sm_transmitted, admissible |-> limiter_check(limiter, at).result = "Ok"]

(***************************************************************************)
(* schema.rs: ComponentSchema, SchemaRegistry, SchemaValidator             *)
(***************************************************************************)
\* FieldSchema (schema.rs:50-57); default_value and description are left out.
FieldSchema(field_id, field_type, optional) ==
    [field_id |-> field_id, field_type |-> field_type, optional |-> optional]

\* ComponentSchema (schema.rs:9-15); description is left out.
ComponentSchema(component_id, version, fields) ==
    [component_id |-> component_id, version |-> version, fields |-> fields]

\* AHashMap::new()
NoSchemas == [c \in {} |-> 0]

\* A check that only refuses the very version that is stored.
version_taken_same_only(stored, schema) ==
    /\ schema.component_id \in DOMAIN stored
    /\ stored[schema.component_id].version = schema.version

\* if let Some(existing) = schemas.get(&component_id) { existing.version >= version }
\* (schema.rs:111-117)
version_taken(stored, schema) ==
    /\ schema.component_id \in DOMAIN stored
    /\ stored[schema.component_id].version >= schema.version

\* A history that puts the new version in front.
push_version_front(history, component_id, version) ==
    [c \in DOMAIN history \cup {component_id} |->
        IF c = component_id
        THEN <<version>> \o (IF c \in DOMAIN history THEN history[c] ELSE <<>>)
        ELSE history[c]]

\* version_history.entry(component_id).or_insert_with(Vec::new).push(version)
\* (schema.rs:119-121)
push_version(history, component_id, version) ==
    [c \in DOMAIN history \cup {component_id} |->
        IF c = component_id
        THEN Append(IF c \in DOMAIN history THEN history[c] ELSE <<>>, version)
        ELSE history[c]]

\* schemas.insert(component_id, schema) (schema.rs:123)
insert_schema(stored, schema) ==
    [c \in DOMAIN stored \cup {schema.component_id} |->
        IF c = schema.component_id THEN schema ELSE stored[c]]

\* SchemaRegistry::register (schema.rs:101-126) with both write locks held.
register(stored, history, schema) ==
    IF version_taken(stored, schema)
    THEN [result |-> "Unknown", schemas |-> stored, version_history |-> history]
    ELSE [result |-> "Ok",
          schemas |-> insert_schema(stored, schema),
          version_history |-> push_version(history, schema.component_id, schema.version)]

\* SchemaRegistry::get (schema.rs:128-135): the schema is <<schema>> or <<>>.
get(stored, component_id) ==
    IF component_id \in DOMAIN stored
    THEN [result |-> "Ok", schema |-> <<stored[component_id]>>]
    ELSE [result |-> "SchemaNotFound", schema |-> <<>>]

\* A get_version that ignores the version asked for.
get_version_any(stored, component_id, version) ==
    [result |-> get(stored, component_id).result,
     schema |-> get(stored, component_id).schema, expected |-> 0, actual |-> 0]

\* SchemaRegistry::get_version (schema.rs:137-148)
get_version(stored, component_id, version) ==
    LET found == get(stored, component_id)
    IN  IF found.result # "Ok"
        THEN [result |-> found.result, schema |-> <<>>, expected |-> 0, actual |-> 0]
        ELSE IF found.schema[1].version = version
        THEN [result |-> "Ok", schema |-> found.schema, expected |-> 0, actual |-> 0]
        ELSE [result |-> "SchemaMismatch", schema |-> <<>>,
              expected |-> version, actual |-> found.schema[1].version]

\* SchemaRegistry::get_version_history (schema.rs:163-170)
get_version_history(history, component_id) ==
    IF component_id \in DOMAIN history THEN history[component_id] ELSE <<>>

\* The loop of validate_component over schema.fields (schema.rs:226-242);
\* `fields` maps the presented FieldIds to their FieldTypes.
RECURSIVE validate_fields(_, _)
validate_fields(field_schemas, fields) ==
    IF field_schemas = <<>> THEN "Ok"
    ELSE LET field_schema == Head(field_schemas)
         IN  IF ~field_schema.optional /\ field_schema.field_id \notin DOMAIN fields
             THEN "InvalidMessage"
             ELSE IF /\ field_schema.field_id \in DOMAIN fields
                     /\ fields[field_schema.field_id] # field_schema.field_type
             THEN "InvalidMessage"
             ELSE validate_fields(Tail(field_schemas), fields)

\* A validation that demands every declared field, optional or not.
validate_component_all_required(stored, component_id, fields) ==
    IF get(stored, component_id).result # "Ok"
    THEN get(stored, component_id).result
    ELSE IF \E i \in DOMAIN stored[component_id].fields :
               stored[component_id].fields[i].field_id \notin DOMAIN fields
    THEN "InvalidMessage"
    ELSE validate_fields(stored[component_id].fields, fields)

\* SchemaValidator::validate_component (schema.rs:223-245)
validate_component(stored, component_id, fields) ==
    IF get(stored, component_id).result # "Ok"
    THEN get(stored, component_id).result
    ELSE validate_fields(stored[component_id].fields, fields)

\* RwLock: nobody holds it.
FreeLock == [writer |-> 0, readers |-> {}]

\* What an operation of the history recorded when none was called yet.
NoCall ==
    [op |-> "none", component_id |-> "", version |-> 0, result |-> "none",
     returned |-> <<>>, expected |-> 0, actual |-> 0, fields |-> <<>>]

(***************************************************************************)
(* The components a specification does not exercise stay as constructed     *)
(***************************************************************************)
IdleDelta ==
    /\ previous_snapshot = <<>>
    /\ enabled = TRUE
    /\ delta = NoDelta
    /\ dc_op = "new"
    /\ dc_before = <<>>
    /\ dc_resets = FALSE
    /\ dc_calls = 0
    /\ dc_after_reset = FALSE
    /\ world = EmptyWorld

IdleRL ==
    /\ rate_limiter = NewRateLimiter(RateLimitConfig(1, 1, 1, 1))
    /\ rl_calls = <<>>
    /\ rl_reset_seen = FALSE

IdleTB ==
    /\ token_bucket = NewTokenBucket(1, 1, 0)
    /\ tb_calls = <<>>
    /\ overflow_checks = FALSE

IdleSR ==
    /\ schemas = NoSchemas
    /\ version_history = NoSchemas
    /\ sr_ops = 0
    /\ sr_last = NoCall
    /\ sr_first = NoSchemas
    /\ sr_max = NoSchemas
    /\ lock_schemas = FreeLock
    /\ lock_history = FreeLock
    /\ threads = <<>>
    /\ sr_reads = <<>>

IdleSQ ==
    /\ SEQUENCE_COUNTER = 0
    /\ seq_threads = <<>>
    /\ seq_created = <<>>

IdleLK ==
    /\ link = <<>>
    /\ lk_calls = <<>>
    /\ lk_world = <<>>

IdleST ==
    /\ stream_serializer = <<>>
    /\ stream_wire = <<>>
    /\ stream_deserializer = <<>>
    /\ st_written = <<>>
    /\ st_read = <<>>
    /\ st_last = <<>>

IdleSM ==
    /\ sm_config = SyncConfig(FALSE, RateLimitConfig(1, 1, 1, 1), TRUE, FALSE, 0)
    /\ transport = NewMemoryTransport
    /\ sm_rate_limiter = <<>>
    /\ last_sync = <<>>
    /\ sync_count = 0
    /\ reconnect_attempts = 0
    /\ schema_version = 1
    /\ sm_calls = <<>>
    /\ sm_transmitted = <<>>

(***************************************************************************)
(* SpecRL: one RateLimiter with a fixed config, called at any times        *)
(***************************************************************************)
MaxCalls == 4

\* The configs of the model: window_duration below, at and above the burst
\* window; each limit the tightest in turn.
RateLimitConfigs ==
    { RateLimitConfig(2, 8, 3, 4),
      RateLimitConfig(3, 8, 2, 4),
      RateLimitConfig(3, 3, 3, 4),
      RateLimitConfig(2, 8, 3, 2),
      RateLimitConfig(2, 3, 2, 2) }

\* Time between two calls, in ticks, and message sizes.
Elapsed == {0, 2, 3, 4, 5}
MessageSizes == {1, 2}

InitRL ==
    /\ now = 0
    /\ rate_limiter \in {NewRateLimiter(c) : c \in RateLimitConfigs}
    /\ rl_calls = <<>>
    /\ rl_reset_seen = FALSE
    /\ IdleDelta
    /\ IdleTB
    /\ IdleSM
    /\ IdleSR
    /\ IdleSQ
    /\ IdleLK
    /\ IdleST

\* limiter.check_and_record(size), d ticks after the previous operation.
CheckAndRecord ==
    /\ Len(rl_calls) < MaxCalls
    /\ \E d \in Elapsed, size \in MessageSizes :
          LET r == check_and_record(rate_limiter, now + d, size)
          IN  /\ now' = now + d
              /\ rate_limiter' = r.limiter
              /\ rl_calls' = Append(rl_calls, [timestamp |-> now + d, size |-> size,
                                               result |-> r.result])
    /\ UNCHANGED <<rl_reset_seen, dcVars, tbVars, smVars, srVars, sqVars, lkVars, stVars>>

\* limiter.reset()
ResetLimiter ==
    /\ rate_limiter.message_history # <<>>
    /\ rate_limiter' = reset_histories(rate_limiter)
    /\ rl_reset_seen' = TRUE
    /\ UNCHANGED <<now, rl_calls, dcVars, tbVars, smVars, srVars, sqVars, lkVars, stVars>>

NextRL == CheckAndRecord \/ ResetLimiter

SpecRL == InitRL /\ [][NextRL]_vars

(***************************************************************************)
(* SpecBytes: one RateLimiter given message sizes up to u64::MAX           *)
(***************************************************************************)
\* Byte budgets of half the u64 range and of all of it; the message count
\* and the burst size do not bind.
ByteConfigs == { RateLimitConfig(4, 8, 4, 4), RateLimitConfig(4, U64Max, 4, 4) }

WideSizes == {1, 7, 8, U64Max}

\* Two calls at the same instant, or a window apart.
WideElapsed == {0, 5}

InitBytes ==
    /\ now = 0
    /\ rate_limiter \in {NewRateLimiter(c) : c \in ByteConfigs}
    /\ rl_calls = <<>>
    /\ rl_reset_seen = FALSE
    /\ overflow_checks \in BOOLEAN
    /\ token_bucket = NewTokenBucket(1, 1, 0)
    /\ tb_calls = <<>>
    /\ IdleDelta
    /\ IdleSM
    /\ IdleSR
    /\ IdleSQ
    /\ IdleLK
    /\ IdleST

\* limiter.check_and_record(size), d ticks after the previous operation; a
\* call that panicked is the last one.
CheckAndRecordBytes ==
    /\ Len(rl_calls) < MaxCalls
    /\ \A i \in DOMAIN rl_calls : rl_calls[i].result # "Panic"
    /\ \E d \in WideElapsed, size \in WideSizes :
          LET r == check_and_record_u64(rate_limiter, now + d, size, overflow_checks)
          IN  /\ now' = now + d
              /\ rate_limiter' = r.limiter
              /\ rl_calls' = Append(rl_calls,
                    [timestamp |-> now + d, size |-> size, result |-> r.result,
                     in_window |-> count_bytes_in_window(
                                      cleanup_old_records(rate_limiter, now + d), now + d),
                     total_before |-> SumSizes(SelectSeq(rl_calls,
                                                         LAMBDA c : c.result = "Ok"))])
    /\ UNCHANGED <<rl_reset_seen, overflow_checks, token_bucket, tb_calls, dcVars, smVars,
                   srVars, sqVars, lkVars, stVars>>

NextBytes == CheckAndRecordBytes

SpecBytes == InitBytes /\ [][NextBytes]_vars

(***************************************************************************)
(* SpecTB: one token bucket, created at instant 0, called at any times     *)
(***************************************************************************)
MaxConsumes == 5

Capacities == 1..3
\* tokens per second: one token every 4 ticks, every 2 2/3 ticks, and 4 tokens a tick
RefillRates == {10, 15, 160}
TBElapsed == {0, 1, 3, 4}

InitTB ==
    /\ now = 0
    /\ token_bucket \in {NewTokenBucket(c, r, 0) : c \in Capacities, r \in RefillRates}
    /\ tb_calls = <<>>
    /\ overflow_checks \in BOOLEAN
    /\ IdleDelta
    /\ IdleRL
    /\ IdleSM
    /\ IdleSR
    /\ IdleSQ
    /\ IdleLK
    /\ IdleST

\* bucket.check_and_consume(), d ticks after the previous operation.
CheckAndConsume ==
    /\ Len(tb_calls) < MaxConsumes
    /\ \E d \in TBElapsed :
          LET r == check_and_consume(token_bucket, now + d, overflow_checks)
          IN  /\ now' = now + d
              /\ token_bucket' = r.bucket
              /\ tb_calls' = Append(tb_calls,
                                [timestamp |-> now + d, op |-> "check_and_consume",
                                 result |-> r.result, tokens |-> r.bucket.tokens])
    /\ UNCHANGED <<overflow_checks, dcVars, rlVars, smVars, srVars, sqVars, lkVars, stVars>>

\* bucket.reset(), d ticks after the previous operation.
ResetBucket ==
    /\ Len(tb_calls) < MaxConsumes
    /\ \E d \in TBElapsed :
          /\ now' = now + d
          /\ token_bucket' = reset_bucket(token_bucket, now + d)
          /\ tb_calls' = Append(tb_calls,
                            [timestamp |-> now + d, op |-> "reset",
                             result |-> "Ok", tokens |-> token_bucket.capacity])
    /\ UNCHANGED <<overflow_checks, dcVars, rlVars, smVars, srVars, sqVars, lkVars, stVars>>

NextTB == CheckAndConsume \/ ResetBucket

SpecTB == InitTB /\ [][NextTB]_vars

(***************************************************************************)
(* SpecRegistry: one SchemaRegistry handle, its operations called one      *)
(* after the other                                                         *)
(***************************************************************************)
MaxRegistryOps == 4

RegistryComponents == {"Position", "Velocity"}
SchemaVersions == 1..3
SchemaBodies ==
    { <<FieldSchema("x", "F64", FALSE)>>,
      <<FieldSchema("x", "F64", FALSE), FieldSchema("y", "F64", TRUE)>> }
RegistrySchemas ==
    { ComponentSchema(c, v, b) : c \in RegistryComponents, v \in SchemaVersions,
                                 b \in SchemaBodies }

Max(a, b) == IF a >= b THEN a ELSE b

\* The field maps handed to the validator: any of the ids, each with a type.
FieldIds == {"x", "y", "extra"}
FieldTypes == {"F64", "I64"}
PresentedFields == UNION { [ids -> FieldTypes] : ids \in SUBSET FieldIds }

\* SchemaRegistry::new (schema.rs:93-99)
InitRegistry ==
    /\ schemas = NoSchemas
    /\ version_history = NoSchemas
    /\ sr_ops = 0
    /\ sr_last = NoCall
    /\ sr_first = NoSchemas
    /\ sr_max = NoSchemas
    /\ lock_schemas = FreeLock
    /\ lock_history = FreeLock
    /\ threads = <<>>
    /\ sr_reads = <<>>
    /\ now = 0
    /\ IdleDelta
    /\ IdleRL
    /\ IdleTB
    /\ IdleSM
    /\ IdleSQ
    /\ IdleLK
    /\ IdleST

registryFrame == <<lock_schemas, lock_history, threads, sr_reads, now, dcVars, rlVars,
                   tbVars, smVars, sqVars, lkVars, stVars>>

\* What the history remembers of a successful register.
Remember(schema) ==
    LET pair == <<schema.component_id, schema.version>>
    IN  /\ sr_first' = IF pair \in DOMAIN sr_first THEN sr_first
                       ELSE [q \in DOMAIN sr_first \cup {pair} |->
                               IF q = pair THEN schema ELSE sr_first[q]]
        /\ sr_max' = [c \in DOMAIN sr_max \cup {schema.component_id} |->
                        IF c = schema.component_id
                        THEN Max(schema.version,
                                 IF c \in DOMAIN sr_max THEN sr_max[c] ELSE 0)
                        ELSE sr_max[c]]

\* registry.register(schema)
Register ==
    /\ sr_ops < MaxRegistryOps
    /\ \E schema \in RegistrySchemas :
          LET r == register(schemas, version_history, schema)
          IN  /\ schemas' = r.schemas
              /\ version_history' = r.version_history
              /\ sr_last' = [NoCall EXCEPT !.op = "register",
                                           !.component_id = schema.component_id,
                                           !.version = schema.version,
                                           !.result = r.result]
              /\ IF r.result = "Ok" THEN Remember(schema)
                                    ELSE UNCHANGED <<sr_first, sr_max>>
    /\ sr_ops' = sr_ops + 1
    /\ UNCHANGED registryFrame

\* registry.get(component_id)
Get ==
    /\ sr_ops < MaxRegistryOps
    /\ \E c \in RegistryComponents :
          sr_last' = [NoCall EXCEPT !.op = "get", !.component_id = c,
                                    !.result = get(schemas, c).result,
                                    !.returned = get(schemas, c).schema]
    /\ sr_ops' = sr_ops + 1
    /\ UNCHANGED <<schemas, version_history, sr_first, sr_max, registryFrame>>

\* registry.get_version(component_id, version)
GetVersion ==
    /\ sr_ops < MaxRegistryOps
    /\ \E c \in RegistryComponents, v \in SchemaVersions :
          LET r == get_version(schemas, c, v)
          IN  sr_last' = [NoCall EXCEPT !.op = "get_version", !.component_id = c,
                                        !.version = v, !.result = r.result,
                                        !.returned = r.schema,
                                        !.expected = r.expected, !.actual = r.actual]
    /\ sr_ops' = sr_ops + 1
    /\ UNCHANGED <<schemas, version_history, sr_first, sr_max, registryFrame>>

\* registry.get_version_history(component_id)
GetVersionHistory ==
    /\ sr_ops < MaxRegistryOps
    /\ \E c \in RegistryComponents :
          sr_last' = [NoCall EXCEPT !.op = "get_version_history", !.component_id = c,
                                    !.result = "Ok",
                                    !.returned = get_version_history(version_history, c)]
    /\ sr_ops' = sr_ops + 1
    /\ UNCHANGED <<schemas, version_history, sr_first, sr_max, registryFrame>>

\* SchemaValidator::new(registry.clone()).validate_component(component_id, fields)
ValidateComponent ==
    /\ sr_ops < MaxRegistryOps
    /\ \E c \in RegistryComponents, fields \in PresentedFields :
          sr_last' = [NoCall EXCEPT !.op = "validate_component", !.component_id = c,
                                    !.result = validate_component(schemas, c, fields),
                                    !.fields = fields]
    /\ sr_ops' = sr_ops + 1
    /\ UNCHANGED <<schemas, version_history, sr_first, sr_max, registryFrame>>

\* registry.clear() (schema.rs:176-187)
Clear ==
    /\ sr_ops < MaxRegistryOps
    /\ schemas' = NoSchemas
    /\ version_history' = NoSchemas
    /\ sr_last' = [NoCall EXCEPT !.op = "clear", !.result = "Ok"]
    /\ sr_ops' = sr_ops + 1
    /\ UNCHANGED <<sr_first, sr_max, registryFrame>>

NextRegistry ==
    Register \/ Get \/ GetVersion \/ GetVersionHistory \/ ValidateComponent \/ Clear

SpecRegistry == InitRegistry /\ [][NextRegistry]_vars

(***************************************************************************)
(* SpecShared: two threads register through clones of one SchemaRegistry   *)
(* while a third thread calls get; the clones share both maps and their    *)
(* RwLocks (schema.rs:204-212)                                             *)
(***************************************************************************)
MaxGets == 2

Writers == {1, 2}
Reader == 3

\* The schemas the two writers bring: one component, two versions.
SharedSchemas ==
    { ComponentSchema("Position", v, b) : v \in 1..2, b \in SchemaBodies }

\* What the registry holds before the threads start: nothing, or version 1.
OldSchema == ComponentSchema("Position", 1, <<FieldSchema("x", "F64", FALSE)>>)
OldRegistries ==
    { [schemas |-> NoSchemas, version_history |-> NoSchemas],
      [schemas |-> insert_schema(NoSchemas, OldSchema),
       version_history |-> push_version(NoSchemas, "Position", 1)] }

\* RwLock::write() returns once no writer and no reader holds the lock.
can_write_unguarded(lock) == TRUE
can_write(lock) == lock.writer = 0 /\ lock.readers = {}

\* RwLock::read() returns once no writer holds the lock.
can_read(lock) == lock.writer = 0

\* A map entry while insert is copying the schema into it: the key and the
\* version are written, the fields are not yet.
half_inserted(stored, schema) ==
    insert_schema(stored, [schema EXCEPT !.fields = <<>>])

RegisterThread(schema) ==
    [kind |-> "register", pc |-> "start", schema |-> schema, result |-> "none", calls |-> 0]
GetThread(component_id) ==
    [kind |-> "get", pc |-> "start", schema |-> ComponentSchema(component_id, 0, <<>>),
     result |-> "none", calls |-> 0]

InitShared ==
    /\ \E old \in OldRegistries :
          /\ schemas = old.schemas
          /\ version_history = old.version_history
          /\ sr_first = [pair \in {<<c, old.schemas[c].version>> : c \in DOMAIN old.schemas}
                           |-> old.schemas[pair[1]]]
          /\ sr_max = [c \in DOMAIN old.schemas |-> old.schemas[c].version]
    /\ \E s1 \in SharedSchemas, s2 \in SharedSchemas :
          threads = <<RegisterThread(s1), RegisterThread(s2), GetThread("Position")>>
    /\ lock_schemas = FreeLock
    /\ lock_history = FreeLock
    /\ sr_reads = <<>>
    /\ sr_ops = 0
    /\ sr_last = NoCall
    /\ now = 0
    /\ IdleDelta
    /\ IdleRL
    /\ IdleTB
    /\ IdleSM
    /\ IdleSQ
    /\ IdleLK
    /\ IdleST

sharedFrame == <<sr_ops, sr_last, sr_first, sr_max, now, dcVars, rlVars, tbVars, smVars,
                sqVars, lkVars, stVars>>

\* let mut schemas = self.schemas.write() (schema.rs:102-103)
AcquireSchemasWrite(t) ==
    /\ threads[t].kind = "register"
    /\ threads[t].pc = "start"
    /\ can_write(lock_schemas)
    /\ lock_schemas' = [lock_schemas EXCEPT !.writer = t]
    /\ threads' = [threads EXCEPT ![t].pc = "schemas_locked"]
    /\ UNCHANGED <<schemas, version_history, lock_history, sr_reads, sharedFrame>>

\* let mut version_history = self.version_history.write() (schema.rs:105-106)
AcquireHistoryWrite(t) ==
    /\ threads[t].pc = "schemas_locked"
    /\ can_write(lock_history)
    /\ lock_history' = [lock_history EXCEPT !.writer = t]
    /\ threads' = [threads EXCEPT ![t].pc = "locked"]
    /\ UNCHANGED <<schemas, version_history, lock_schemas, sr_reads, sharedFrame>>

\* The version check (schema.rs:111-117); the refusal returns and drops both
\* guards.
CheckVersion(t) ==
    /\ threads[t].pc = "locked"
    /\ IF version_taken(schemas, threads[t].schema)
       THEN /\ threads' = [threads EXCEPT ![t].pc = "done", ![t].result = "Unknown"]
            /\ lock_schemas' = FreeLock
            /\ lock_history' = FreeLock
       ELSE /\ threads' = [threads EXCEPT ![t].pc = "push"]
            /\ UNCHANGED <<lock_schemas, lock_history>>
    /\ UNCHANGED <<schemas, version_history, sr_reads, sharedFrame>>

\* version_history.entry(..).or_insert_with(Vec::new).push(version)
\* (schema.rs:119-121)
PushVersion(t) ==
    /\ threads[t].pc = "push"
    /\ version_history' = push_version(version_history, threads[t].schema.component_id,
                                       threads[t].schema.version)
    /\ threads' = [threads EXCEPT ![t].pc = "insert"]
    /\ UNCHANGED <<schemas, lock_schemas, lock_history, sr_reads, sharedFrame>>

\* schemas.insert(component_id, schema) (schema.rs:123) starts writing the
\* entry ...
InsertBegin(t) ==
    /\ threads[t].pc = "insert"
    /\ schemas' = half_inserted(schemas, threads[t].schema)
    /\ threads' = [threads EXCEPT ![t].pc = "inserting"]
    /\ UNCHANGED <<version_history, lock_schemas, lock_history, sr_reads, sharedFrame>>

\* ... and finishes it.
InsertEnd(t) ==
    /\ threads[t].pc = "inserting"
    /\ schemas' = insert_schema(schemas, threads[t].schema)
    /\ threads' = [threads EXCEPT ![t].pc = "inserted"]
    /\ UNCHANGED <<version_history, lock_schemas, lock_history, sr_reads, sharedFrame>>

\* Ok(()) (schema.rs:125): both guards are dropped.
ReturnOk(t) ==
    /\ threads[t].pc = "inserted"
    /\ threads' = [threads EXCEPT ![t].pc = "done", ![t].result = "Ok"]
    /\ lock_schemas' = FreeLock
    /\ lock_history' = FreeLock
    /\ UNCHANGED <<schemas, version_history, sr_reads, sharedFrame>>

\* let schemas = self.schemas.read() (schema.rs:129-130)
AcquireSchemasRead(t) ==
    /\ threads[t].kind = "get"
    /\ threads[t].pc = "start"
    /\ threads[t].calls < MaxGets
    /\ can_read(lock_schemas)
    /\ lock_schemas' = [lock_schemas EXCEPT !.readers = @ \cup {t}]
    /\ threads' = [threads EXCEPT ![t].pc = "reading"]
    /\ UNCHANGED <<schemas, version_history, lock_history, sr_reads, sharedFrame>>

\* schemas.get(component_id).cloned() (schema.rs:131-134); the guard is
\* dropped on return.
ReadSchema(t) ==
    /\ threads[t].pc = "reading"
    /\ sr_reads' = Append(sr_reads, get(schemas, threads[t].schema.component_id))
    /\ lock_schemas' = [lock_schemas EXCEPT !.readers = @ \ {t}]
    /\ threads' = [threads EXCEPT ![t].pc = "start", ![t].calls = @ + 1,
                                  ![t].result = get(schemas, threads[t].schema.component_id).result]
    /\ UNCHANGED <<schemas, version_history, lock_history, sharedFrame>>

NextShared ==
    \E t \in Writers \cup {Reader} :
       \/ AcquireSchemasWrite(t)
       \/ AcquireHistoryWrite(t)
       \/ CheckVersion(t)
       \/ PushVersion(t)
       \/ InsertBegin(t)
       \/ InsertEnd(t)
       \/ ReturnOk(t)
       \/ AcquireSchemasRead(t)
       \/ ReadSchema(t)

SpecShared == InitShared /\ [][NextShared]_vars

(***************************************************************************)
(* SpecLocks: threads calling register, clear, get, get_version, has,      *)
(* get_all and get_version_history on clones of one SchemaRegistry, each   *)
(* call taking and dropping the RwLocks as its code does; SpecLocksFair    *)
(* adds that a thread which can take its next step takes it                *)
(***************************************************************************)
MaxLockCalls == 2

LockThreads == {1, 2, 3}

CallKinds == {"register", "clear", "get", "get_version", "has", "get_all",
              "get_version_history"}

\* A clear that takes version_history before schemas.
lock_plan_clear_reversed(kind) ==
    CASE kind = "register" -> <<[lock |-> "schemas", mode |-> "write"],
                                [lock |-> "version_history", mode |-> "write"]>>
      [] kind = "clear" -> <<[lock |-> "version_history", mode |-> "write"],
                             [lock |-> "schemas", mode |-> "write"]>>
      [] kind = "get_version_history" -> <<[lock |-> "version_history", mode |-> "read"]>>
      [] OTHER -> <<[lock |-> "schemas", mode |-> "read"]>>

\* The locks a call takes, in the order its code takes them: register
\* (schema.rs:102-106) and clear (schema.rs:177-181) write-lock schemas and
\* then version_history; get (schema.rs:129), get_version through get
\* (schema.rs:138), has (schema.rs:151) and get_all (schema.rs:157) read-lock
\* schemas; get_version_history (schema.rs:164) read-locks version_history.
lock_plan(kind) ==
    CASE kind \in {"register", "clear"} ->
              <<[lock |-> "schemas", mode |-> "write"],
                [lock |-> "version_history", mode |-> "write"]>>
      [] kind = "get_version_history" -> <<[lock |-> "version_history", mode |-> "read"]>>
      [] OTHER -> <<[lock |-> "schemas", mode |-> "read"]>>

\* RwLock::read() / RwLock::write() return once the lock admits the mode.
can_take(lock, mode) == IF mode = "write" THEN can_write(lock) ELSE can_read(lock)

\* The lock with the guard of thread t in it.
guard_taken(lock, mode, t) ==
    IF mode = "write" THEN [lock EXCEPT !.writer = t]
    ELSE [lock EXCEPT !.readers = @ \cup {t}]

\* The lock after thread t dropped its guard.
guard_dropped(lock, t) ==
    [writer |-> IF lock.writer = t THEN 0 ELSE lock.writer, readers |-> lock.readers \ {t}]

\* SchemaRegistry::has (schema.rs:150-154)
has(stored, component_id) == component_id \in DOMAIN stored

\* What the body of a call returns once its locks are held.
call_result(kind, stored, history) ==
    CASE kind = "register" -> register(stored, history, OldSchema).result
      [] kind = "get" -> get(stored, "Position").result
      [] kind = "get_version" -> get_version(stored, "Position", 1).result
      [] kind = "has" -> IF has(stored, "Position") THEN "true" ELSE "false"
      [] OTHER -> "Ok"

LockThread(kind) == [kind |-> kind, held |-> <<>>, calls |-> 0, result |-> "none"]

InitLocks ==
    /\ threads \in [LockThreads -> {LockThread(kind) : kind \in CallKinds}]
    /\ schemas = NoSchemas
    /\ version_history = NoSchemas
    /\ sr_first = <<>>
    /\ sr_max = <<>>
    /\ lock_schemas = FreeLock
    /\ lock_history = FreeLock
    /\ sr_reads = <<>>
    /\ sr_ops = 0
    /\ sr_last = NoCall
    /\ now = 0
    /\ IdleDelta
    /\ IdleRL
    /\ IdleTB
    /\ IdleSM
    /\ IdleSQ
    /\ IdleLK
    /\ IdleST

\* The next lock of the call's plan is free for its mode: the thread takes
\* it (self.schemas.write(), self.version_history.read(), ...).
LockAcquire(t) ==
    /\ threads[t].calls < MaxLockCalls
    /\ Len(threads[t].held) < Len(lock_plan(threads[t].kind))
    /\ LET wanted == lock_plan(threads[t].kind)[Len(threads[t].held) + 1]
       IN  /\ IF wanted.lock = "schemas"
              THEN /\ can_take(lock_schemas, wanted.mode)
                   /\ lock_schemas' = guard_taken(lock_schemas, wanted.mode, t)
                   /\ UNCHANGED lock_history
              ELSE /\ can_take(lock_history, wanted.mode)
                   /\ lock_history' = guard_taken(lock_history, wanted.mode, t)
                   /\ UNCHANGED lock_schemas
           /\ threads' = [threads EXCEPT ![t].held = Append(@, wanted.lock)]
    /\ UNCHANGED <<schemas, version_history, sr_reads, sharedFrame>>

\* With every lock of its plan held the call does its work and returns,
\* dropping its guards.
LockReturn(t) ==
    /\ threads[t].calls < MaxLockCalls
    /\ Len(threads[t].held) = Len(lock_plan(threads[t].kind))
    /\ schemas' = CASE threads[t].kind = "register" ->
                          register(schemas, version_history, OldSchema).schemas
                    [] threads[t].kind = "clear" -> NoSchemas
                    [] OTHER -> schemas
    /\ version_history' = CASE threads[t].kind = "register" ->
                                  register(schemas, version_history, OldSchema).version_history
                            [] threads[t].kind = "clear" -> NoSchemas
                            [] OTHER -> version_history
    /\ lock_schemas' = guard_dropped(lock_schemas, t)
    /\ lock_history' = guard_dropped(lock_history, t)
    /\ threads' = [threads EXCEPT ![t].held = <<>>, ![t].calls = @ + 1,
                                  ![t].result = call_result(threads[t].kind, schemas,
                                                            version_history)]
    /\ UNCHANGED <<sr_reads, sharedFrame>>

LockStep(t) == LockAcquire(t) \/ LockReturn(t)

NextLocks ==
    \E t \in LockThreads :
       \/ LockAcquire(t)
       \/ LockReturn(t)

SpecLocks == InitLocks /\ [][NextLocks]_vars

\* Every thread that can take its next step is scheduled: a lock that stays
\* free is granted, and a call holding its locks runs to its return.
SpecLocksFair == SpecLocks /\ \A t \in LockThreads : WF_vars(LockStep(t))

(***************************************************************************)
(* SpecSeq: threads of one process creating messages; MessageHeader::new   *)
(* bumps a static mut counter without synchronisation (protocol.rs:34-38)  *)
(***************************************************************************)
MaxMessages == 2

SeqThreads == {1, 2}

\* The thread sets that create messages: one thread alone, or two at once.
SeqRunning == {{1}, SeqThreads}

SeqTypes == {"Ping", "Delta"}

\* A counter that is written back unchanged.
next_sequence_stuck(counter) == counter

\* SEQUENCE_COUNTER += 1 (protocol.rs:36); u64 does not wrap within the
\* messages of the model.
next_sequence(counter) == counter + 1

InitSeq ==
    /\ SEQUENCE_COUNTER = 0
    /\ \E running \in SeqRunning :
          seq_threads = [t \in running |-> [pc |-> "idle", loaded |-> 0, made |-> 0]]
    /\ seq_created = <<>>
    /\ now = 0
    /\ IdleDelta
    /\ IdleRL
    /\ IdleTB
    /\ IdleSM
    /\ IdleSR
    /\ IdleLK
    /\ IdleST

seqFrame == <<now, dcVars, rlVars, tbVars, smVars, srVars, lkVars, stVars>>

\* A thread enters MessageHeader::new and reads SEQUENCE_COUNTER.
LoadCounter(t) ==
    /\ t \in DOMAIN seq_threads
    /\ seq_threads[t].pc = "idle"
    /\ seq_threads[t].made < MaxMessages
    /\ seq_threads' = [seq_threads EXCEPT ![t].pc = "loaded", ![t].loaded = SEQUENCE_COUNTER]
    /\ UNCHANGED <<SEQUENCE_COUNTER, seq_created, seqFrame>>

\* It writes the value it read plus one back.
StoreCounter(t) ==
    /\ t \in DOMAIN seq_threads
    /\ seq_threads[t].pc = "loaded"
    /\ SEQUENCE_COUNTER' = next_sequence(seq_threads[t].loaded)
    /\ seq_threads' = [seq_threads EXCEPT ![t].pc = "stored"]
    /\ UNCHANGED <<seq_created, seqFrame>>

\* The block's value `SEQUENCE_COUNTER` (protocol.rs:37) becomes the header's
\* sequence: the static read again, or the value just computed kept in a
\* register; the unsynchronised access leaves both to the build.
TakeSequence(t) ==
    /\ t \in DOMAIN seq_threads
    /\ seq_threads[t].pc = "stored"
    /\ \E sequence \in {SEQUENCE_COUNTER, next_sequence(seq_threads[t].loaded)},
          msg_type \in SeqTypes :
          seq_created' = Append(seq_created,
                                [thread |-> t, msg_type |-> msg_type, sequence |-> sequence])
    /\ seq_threads' = [seq_threads EXCEPT ![t].pc = "idle", ![t].made = @ + 1]
    /\ UNCHANGED <<SEQUENCE_COUNTER, seqFrame>>

NextSeq ==
    \E t \in SeqThreads : LoadCounter(t) \/ StoreCounter(t) \/ TakeSequence(t)

SpecSeq == InitSeq /\ [][NextSeq]_vars

(***************************************************************************)
(* SpecSync: one SyncManager over a MemoryTransport; the caller sends       *)
(* snapshots and deltas at any times and may close the transport           *)
(***************************************************************************)
MaxSends == 3

Entity1(data) == <<SerializedEntity(1, <<SerializedComponent("Position", data)>>)>>

SyncSnapshots ==
    { WorldSnapshot(<<>>, 100),
      WorldSnapshot(Entity1(Bin1), 200),
      WorldSnapshot(Entity1(Bin2), 300) }

\* One message per window of 4 ticks; the byte budget and the burst size do
\* not bind.
SyncRateLimit == RateLimitConfig(1, 4 * estimated_size, 2, 4)

\* Two messages per window, with a burst size that does not bind and one
\* that does.
SyncRateLimitTwo == RateLimitConfig(2, 4 * estimated_size, 2, 4)
SyncRateLimitBurst == RateLimitConfig(2, 4 * estimated_size, 1, 4)

SyncConfigs ==
    { SyncConfig(FALSE, SyncRateLimit, TRUE, TRUE, 2),
      SyncConfig(TRUE, SyncRateLimit, TRUE, TRUE, 1),
      SyncConfig(TRUE, SyncRateLimitTwo, TRUE, FALSE, 1),
      SyncConfig(TRUE, SyncRateLimitBurst, TRUE, TRUE, 1) }

\* The message id acknowledged by send_ack.
AckIds == {7}

SyncElapsed == {0, 5}

\* SyncManager::new (sync.rs:95-115)
InitSync ==
    /\ now = 0
    /\ sm_config \in SyncConfigs
    /\ transport = NewMemoryTransport
    /\ previous_snapshot = <<>>
    /\ enabled = sm_config.enable_field_compression
    /\ sm_rate_limiter = IF sm_config.enable_rate_limiting
                         THEN <<NewRateLimiter(sm_config.rate_limit_config)>>
                         ELSE <<>>
    /\ last_sync = <<>>
    /\ sync_count = 0
    /\ reconnect_attempts = 0
    /\ schema_version = 1
    /\ sm_calls = <<>>
    /\ sm_transmitted = <<>>
    /\ delta = NoDelta
    /\ dc_op = "new"
    /\ dc_before = <<>>
    /\ dc_resets = FALSE
    /\ dc_calls = 0
    /\ dc_after_reset = FALSE
    /\ world = EmptyWorld
    /\ IdleRL
    /\ IdleTB
    /\ IdleSR
    /\ IdleSQ
    /\ IdleLK
    /\ IdleST

syncFrame == <<enabled, delta, dc_op, dc_before, dc_resets, dc_calls, dc_after_reset,
               world, rlVars, tbVars, srVars, sqVars, lkVars, stVars, sm_config, schema_version>>

\* SyncManager::send_snapshot (sync.rs:117-146), d ticks after the previous
\* operation.
SendSnapshot ==
    /\ Len(sm_calls) < MaxSends
    /\ \E snapshot \in SyncSnapshots, d \in SyncElapsed :
          LET at == now + d
              message == MessageSnapshot(snapshot.entities, snapshot.timestamp, schema_version)
              checked == limiter_check(sm_rate_limiter, at)
              Call(result, sent) ==
                 SyncCall("send_snapshot", snapshot, result, sent, sm_rate_limiter, at)
          IN  /\ now' = at
              /\ IF ~transport.connected
                 THEN /\ reconnect_attempts' =
                            attempts_after_closed(sm_config, reconnect_attempts)
                      /\ sm_calls' = Append(sm_calls, Call("ConnectionClosed", <<>>))
                      /\ UNCHANGED <<transport, sm_rate_limiter, last_sync, sync_count,
                                     sm_transmitted>>
                 ELSE IF checked.result # "Ok"
                 THEN /\ sm_rate_limiter' = checked.limiter
                      /\ sm_calls' = Append(sm_calls, Call("RateLimitExceeded", <<>>))
                      /\ UNCHANGED <<transport, last_sync, sync_count, reconnect_attempts,
                                     sm_transmitted>>
                 ELSE /\ sm_rate_limiter' = checked.limiter
                      /\ transport' = transport_send(transport, message)
                      /\ last_sync' = after_send(sync_count, at).last_sync
                      /\ sync_count' = after_send(sync_count, at).sync_count
                      /\ reconnect_attempts' = after_send(sync_count, at).reconnect_attempts
                      /\ sm_calls' = Append(sm_calls, Call("Ok", <<message>>))
                      /\ sm_transmitted' = <<snapshot>>
    /\ UNCHANGED <<previous_snapshot, syncFrame>>

\* SyncManager::send_delta (sync.rs:148-180), d ticks after the previous
\* operation.
SendDelta ==
    /\ Len(sm_calls) < MaxSends
    /\ \E snapshot \in SyncSnapshots, d \in SyncElapsed, ord \in HashOrders :
          LET at == now + d
              computed == create_delta(enabled, previous_snapshot, snapshot, ord)
              \* (delta.base_timestamp * 1000.0) as u64
              message == MessageDelta(computed.changes, computed.base_timestamp * 1000,
                                      schema_version)
              checked == limiter_check(sm_rate_limiter, at)
              Call(result, sent) ==
                 SyncCall("send_delta", snapshot, result, sent, sm_rate_limiter, at)
          IN  /\ now' = at
              /\ IF ~transport.connected
                 THEN /\ reconnect_attempts' =
                            attempts_after_closed(sm_config, reconnect_attempts)
                      /\ sm_calls' = Append(sm_calls, Call("ConnectionClosed", <<>>))
                      /\ UNCHANGED <<previous_snapshot, transport, sm_rate_limiter, last_sync,
                                     sync_count, sm_transmitted>>
                 ELSE IF nothing_to_send(computed)
                 THEN /\ previous_snapshot' = <<snapshot>>
                      /\ sm_calls' = Append(sm_calls, Call("Ok", <<>>))
                      /\ UNCHANGED <<transport, sm_rate_limiter, last_sync, sync_count,
                                     reconnect_attempts, sm_transmitted>>
                 ELSE IF checked.result # "Ok"
                 THEN /\ previous_snapshot' = <<snapshot>>
                      /\ sm_rate_limiter' = checked.limiter
                      /\ sm_calls' = Append(sm_calls, Call("RateLimitExceeded", <<>>))
                      /\ UNCHANGED <<transport, last_sync, sync_count, reconnect_attempts,
                                     sm_transmitted>>
                 ELSE /\ previous_snapshot' = <<snapshot>>
                      /\ sm_rate_limiter' = checked.limiter
                      /\ transport' = transport_send(transport, message)
                      /\ last_sync' = after_send(sync_count, at).last_sync
                      /\ sync_count' = after_send(sync_count, at).sync_count
                      /\ reconnect_attempts' = after_send(sync_count, at).reconnect_attempts
                      /\ sm_calls' = Append(sm_calls, Call("Ok", <<message>>))
                      /\ sm_transmitted' = <<snapshot>>
    /\ UNCHANGED syncFrame

\* transport.send(&message)? of a message that bypasses the limiter
\* (sync.rs:250-266), d ticks after the previous operation.
SendControl(op, message) ==
    /\ \E d \in SyncElapsed :
          /\ now' = now + d
          /\ IF ~transport.connected
             THEN /\ sm_calls' = Append(sm_calls,
                        SyncCall(op, <<>>, "ConnectionClosed", <<>>, sm_rate_limiter, now + d))
                  /\ UNCHANGED transport
             ELSE /\ transport' = transport_send(transport, message)
                  /\ sm_calls' = Append(sm_calls,
                        SyncCall(op, <<>>, "Ok", <<message>>, sm_rate_limiter, now + d))
    /\ UNCHANGED <<previous_snapshot, sm_rate_limiter, last_sync, sync_count,
                   reconnect_attempts, sm_transmitted, syncFrame>>

\* SyncManager::request_snapshot (sync.rs:250-254)
RequestSnapshot ==
    /\ Len(sm_calls) < MaxSends
    /\ SendControl("request_snapshot", MessageRequestSnapshot(schema_version))

\* SyncManager::send_ack (sync.rs:256-260)
SendAck ==
    /\ Len(sm_calls) < MaxSends
    /\ \E id \in AckIds : SendControl("send_ack", MessageAck(id, schema_version))

\* SyncManager::ping (sync.rs:262-266)
Ping ==
    /\ Len(sm_calls) < MaxSends
    /\ SendControl("ping", MessagePing(schema_version))

\* SyncManager::close (sync.rs:316-318)
Close ==
    /\ transport.connected
    /\ transport' = transport_close(transport)
    /\ UNCHANGED <<now, previous_snapshot, sm_rate_limiter, last_sync, sync_count,
                   reconnect_attempts, sm_calls, sm_transmitted, syncFrame>>

NextSync == SendSnapshot \/ SendDelta \/ RequestSnapshot \/ SendAck \/ Ping \/ Close

SpecSync == InitSync /\ [][NextSync]_vars

(***************************************************************************)
(* SpecPlain: the SyncManager of SpecSync built with rate limiting and     *)
(* field compression disabled                                              *)
(***************************************************************************)
PlainConfig == SyncConfig(FALSE, SyncRateLimit, FALSE, TRUE, 2)

\* SyncManager::new (sync.rs:95-115)
InitPlain ==
    /\ now = 0
    /\ sm_config = PlainConfig
    /\ transport = NewMemoryTransport
    /\ previous_snapshot = <<>>
    /\ enabled = sm_config.enable_field_compression
    /\ sm_rate_limiter = <<>>
    /\ last_sync = <<>>
    /\ sync_count = 0
    /\ reconnect_attempts = 0
    /\ schema_version = 1
    /\ sm_calls = <<>>
    /\ sm_transmitted = <<>>
    /\ delta = NoDelta
    /\ dc_op = "new"
    /\ dc_before = <<>>
    /\ dc_resets = FALSE
    /\ dc_calls = 0
    /\ dc_after_reset = FALSE
    /\ world = EmptyWorld
    /\ IdleRL
    /\ IdleTB
    /\ IdleSR
    /\ IdleSQ
    /\ IdleLK
    /\ IdleST

SpecPlain == InitPlain /\ [][NextSync]_vars

(***************************************************************************)
(* SpecLink: the producer's SyncManager A and the consumer's SyncManager B, *)
(* each over a MemoryTransport, and connect_to moving the frames between   *)
(* the two transports                                                      *)
(***************************************************************************)
MaxLinkOps == 3

LinkManagers == {"A", "B"}
Producers == {"A"}
Consumers == {"B"}

\* BinarySerializer::serialize_message (serialization.rs:50-65): the bytes of
\* a message are the message written in the serializer's format.
serialize_message(format, message) == [format |-> format, message |-> message]

\* The LinkError a failed decode converts to (error.rs:29-36).
decode_error(format) == IF format = "Json" THEN "Json" ELSE "MsgPackDecode"

\* BinarySerializer::deserialize_message (serialization.rs:67-82): bytes
\* written in another format do not parse.
deserialize_message(format, data) ==
    IF data.format = format
    THEN [result |-> "Ok", message |-> <<data.message>>]
    ELSE [result |-> decode_error(format), message |-> <<>>]

\* MemoryTransport::new (transport.rs:33-40), with the frames its receive
\* buffer holds when the manager is built over it.
MemoryTransport(format, received) ==
    [connected |-> TRUE, format |-> format, send_buffer |-> <<>>,
     receive_buffer |-> received]

\* MemoryTransport::send (transport.rs:63-71)
memory_send(t, message) ==
    IF ~t.connected
    THEN [result |-> "ConnectionClosed", transport |-> t]
    ELSE [result |-> "Ok",
          transport |-> [t EXCEPT !.send_buffer =
                                     Append(@, serialize_message(t.format, message))]]

\* A receive that leaves a frame it cannot decode in the buffer.
memory_receive_keeps_frame(t) ==
    IF ~t.connected
    THEN [result |-> "ConnectionClosed", message |-> <<>>, transport |-> t]
    ELSE IF t.receive_buffer = <<>>
    THEN [result |-> "Ok", message |-> <<>>, transport |-> t]
    ELSE LET decoded == deserialize_message(t.format, Head(t.receive_buffer))
         IN  [result |-> decoded.result, message |-> decoded.message,
              transport |-> IF decoded.result = "Ok"
                            THEN [t EXCEPT !.receive_buffer = Tail(@)]
                            ELSE t]

\* MemoryTransport::receive (transport.rs:73-85): remove(0) comes before the
\* decode.
memory_receive(t) ==
    IF ~t.connected
    THEN [result |-> "ConnectionClosed", message |-> <<>>, transport |-> t]
    ELSE IF t.receive_buffer = <<>>
    THEN [result |-> "Ok", message |-> <<>>, transport |-> t]
    ELSE LET decoded == deserialize_message(t.format, Head(t.receive_buffer))
         IN  [result |-> decoded.result, message |-> decoded.message,
              transport |-> [t EXCEPT !.receive_buffer = Tail(@)]]

\* A close that only empties the buffers.
memory_close_buffers_only(t) ==
    [t EXCEPT !.send_buffer = <<>>, !.receive_buffer = <<>>]

\* MemoryTransport::close (transport.rs:87-92)
memory_close(t) ==
    [t EXCEPT !.connected = FALSE, !.send_buffer = <<>>, !.receive_buffer = <<>>]

\* Message::pong (protocol.rs:327-329)
MessagePong(version) ==
    [msg_type |-> "Pong", schema_version |-> version, payload |-> [type |-> "Pong"]]

\* Rate limiting off, field compression on.
LinkConfig == SyncConfig(FALSE, SyncRateLimit, TRUE, TRUE, 2)

\* SyncManager::new (sync.rs:95-115)
NewSyncManager(t, config) ==
    [transport |-> t,
     previous_snapshot |-> <<>>,
     enabled |-> config.enable_field_compression,
     rate_limiter |-> IF config.enable_rate_limiting
                      THEN <<NewRateLimiter(config.rate_limit_config)>>
                      ELSE <<>>,
     last_sync |-> <<>>,
     sync_count |-> 0,
     error_count |-> 0,
     reconnect_attempts |-> 0,
     schema_version |-> 1]

\* What a send returns: the result, the manager afterwards, the message
\* handed to the transport and the delta the compressor computed.
Sent(result, mgr, message, computed) ==
    [result |-> result, manager |-> mgr, message |-> message, delta |-> computed,
     event |-> <<>>]

\* The bookkeeping after transport.send returned Ok (sync.rs:141-143, 175-177)
Synced_at(mgr, at) ==
    [mgr EXCEPT !.last_sync = after_send(mgr.sync_count, at).last_sync,
                !.sync_count = after_send(mgr.sync_count, at).sync_count,
                !.reconnect_attempts = after_send(mgr.sync_count, at).reconnect_attempts]

\* SyncManager::send_snapshot (sync.rs:117-146)
send_snapshot(mgr, snapshot, at) ==
    LET message == MessageSnapshot(snapshot.entities, snapshot.timestamp, mgr.schema_version)
        checked == limiter_check(mgr.rate_limiter, at)
        limited == [mgr EXCEPT !.rate_limiter = checked.limiter]
        sent == memory_send(mgr.transport, message)
    IN  IF ~mgr.transport.connected
        THEN Sent("ConnectionClosed",
                  [mgr EXCEPT !.reconnect_attempts = attempts_after_closed(LinkConfig, @)],
                  <<>>, <<>>)
        ELSE IF checked.result # "Ok"
        THEN Sent("RateLimitExceeded", limited, <<>>, <<>>)
        ELSE Sent("Ok", Synced_at([limited EXCEPT !.transport = sent.transport], at),
                  <<message>>, <<>>)

\* SyncManager::send_delta (sync.rs:148-180)
send_delta(mgr, snapshot, at, ord) ==
    LET computed == create_delta(mgr.enabled, mgr.previous_snapshot, snapshot, ord)
        fed == [mgr EXCEPT !.previous_snapshot = <<snapshot>>]
        message == MessageDelta(computed.changes, computed.base_timestamp * 1000,
                                mgr.schema_version)
        checked == limiter_check(mgr.rate_limiter, at)
        limited == [fed EXCEPT !.rate_limiter = checked.limiter]
        sent == memory_send(mgr.transport, message)
    IN  IF ~mgr.transport.connected
        THEN Sent("ConnectionClosed",
                  [mgr EXCEPT !.reconnect_attempts = attempts_after_closed(LinkConfig, @)],
                  <<>>, <<>>)
        ELSE IF nothing_to_send(computed)
        THEN Sent("Ok", fed, <<>>, <<computed>>)
        ELSE IF checked.result # "Ok"
        THEN Sent("RateLimitExceeded", limited, <<>>, <<computed>>)
        ELSE Sent("Ok", Synced_at([limited EXCEPT !.transport = sent.transport], at),
                  <<message>>, <<computed>>)

\* A control send that counts as a sync.
send_control_counted(mgr, message) ==
    LET sent == memory_send(mgr.transport, message)
    IN  IF sent.result # "Ok"
        THEN Sent(sent.result, mgr, <<>>, <<>>)
        ELSE Sent("Ok", Synced_at([mgr EXCEPT !.transport = sent.transport], 0),
                  <<message>>, <<>>)

\* request_snapshot, send_ack and ping (sync.rs:250-266): the message goes
\* straight to transport.send.
send_control(mgr, message) ==
    LET sent == memory_send(mgr.transport, message)
    IN  IF sent.result # "Ok"
        THEN Sent(sent.result, mgr, <<>>, <<>>)
        ELSE Sent("Ok", [mgr EXCEPT !.transport = sent.transport], <<message>>, <<>>)

\* A SyncEvent: its variant and what the variant carries.
SyncEvent(type, body) == [type |-> type, body |-> body]

\* What receive returns: the result, the manager afterwards, the event and
\* the message handed to the transport meanwhile.
Received(result, mgr, event, message) ==
    [result |-> result, manager |-> mgr, message |-> message, delta |-> <<>>,
     event |-> event]

\* A Snapshot arm that leaves the compressor as it is.
on_snapshot_keep(mgr) == mgr

\* self.delta_compressor.reset() of the Snapshot arm (sync.rs:213)
on_snapshot(mgr) == [mgr EXCEPT !.previous_snapshot = reset_previous(@)]

\* A Ping arm that answers nothing.
on_ping_silent(mgr) == [result |-> "Ok", transport |-> mgr.transport]

\* self.transport.send(&pong) of the Ping arm (sync.rs:232-234)
on_ping(mgr) == memory_send(mgr.transport, MessagePong(mgr.schema_version))

\* SyncManager::process_message (sync.rs:204-248)
process_message(mgr, message) ==
    CASE message.msg_type = "Snapshot" ->
            Received("Ok", on_snapshot(mgr),
                     <<SyncEvent("Snapshot",
                                 <<WorldSnapshot(message.payload.entities,
                                                 message.payload.metadata.world_time)>>)>>,
                     <<>>)
      [] message.msg_type = "Delta" ->
            \* base_timestamp: payload.base_timestamp as f64 / 1000.0; the
            \* timestamp taken from the header is left out
            Received("Ok", mgr,
                     <<SyncEvent("Delta",
                                 <<[changes |-> message.payload.changes,
                                    base_timestamp |-> message.payload.base_timestamp \div 1000]>>)>>,
                     <<>>)
      [] message.msg_type = "RequestSnapshot" ->
            Received("Ok", mgr, <<SyncEvent("SnapshotRequested", <<>>)>>, <<>>)
      [] message.msg_type = "Ack" ->
            Received("Ok", mgr, <<SyncEvent("Ack", <<message.payload.ack_id>>)>>, <<>>)
      [] message.msg_type = "Ping" ->
            IF on_ping(mgr).result # "Ok"
            THEN Received(on_ping(mgr).result, mgr, <<>>, <<>>)
            ELSE Received("Ok", [mgr EXCEPT !.transport = on_ping(mgr).transport],
                          <<SyncEvent("Ping", <<>>)>>,
                          IF on_ping(mgr).transport = mgr.transport
                          THEN <<>> ELSE <<MessagePong(mgr.schema_version)>>)
      [] message.msg_type = "Pong" ->
            Received("Ok", mgr, <<SyncEvent("Pong", <<>>)>>, <<>>)
      [] message.msg_type = "Error" ->
            Received("Ok", [mgr EXCEPT !.error_count = @ + 1],
                     <<SyncEvent("Error", <<message.payload.code>>)>>, <<>>)

\* SyncManager::receive (sync.rs:190-202)
receive(mgr) ==
    LET got == memory_receive(mgr.transport)
        taken == [mgr EXCEPT !.transport = got.transport]
    IN  IF ~mgr.transport.connected
        THEN Received("ConnectionClosed", mgr, <<>>, <<>>)
        ELSE IF got.result # "Ok"
        THEN Received(got.result, taken, <<>>, <<>>)
        ELSE IF got.message = <<>>
        THEN Received("Ok", taken, <<>>, <<>>)
        ELSE process_message(taken, got.message[1])

\* SyncManager::close (sync.rs:316-318): transport.close() returns Ok.
close(mgr) ==
    Received("Ok", [mgr EXCEPT !.transport = memory_close(@)], <<>>, <<>>)

\* The snapshots the managers are given.
LinkSnapshots ==
    { WorldSnapshot(Entity1(Structured([x |-> F64(10)])), 200),
      WorldSnapshot(Entity1(Structured([x |-> F64(15)])), 300) }

LinkFormat == "MessagePack"

\* Frames in B's transport when its manager is built: none, or one written
\* by a Json transport followed by two written by a MessagePack transport,
\* or a snapshot written by a MessagePack transport.
LinkPreloads ==
    { <<>>,
      <<serialize_message("Json", MessagePing(1)),
        serialize_message(LinkFormat, MessageAck(7, 1)),
        serialize_message(LinkFormat, MessageRequestSnapshot(1))>>,
      <<serialize_message(LinkFormat,
                          MessageSnapshot(Entity1(Structured([x |-> F64(10)])), 200, 1))>> }

InitLink ==
    /\ \E received \in LinkPreloads :
          link = [m \in LinkManagers |->
                     NewSyncManager(MemoryTransport(LinkFormat,
                                                    IF m = "B" THEN received ELSE <<>>),
                                    LinkConfig)]
    /\ lk_calls = <<>>
    /\ lk_world = [m \in LinkManagers |-> EmptyWorld]
    /\ now = 0
    /\ IdleDelta
    /\ IdleRL
    /\ IdleTB
    /\ IdleSM
    /\ IdleSR
    /\ IdleSQ
    /\ IdleST

linkFrame == <<now, dcVars, rlVars, tbVars, smVars, srVars, sqVars, stVars>>

\* The frames in the four buffers.
Pending(l) ==
    Len(l["A"].transport.send_buffer) + Len(l["A"].transport.receive_buffer)
        + Len(l["B"].transport.send_buffer) + Len(l["B"].transport.receive_buffer)

\* The consumer of a manager's events keeps the world they describe.
Consume(w, event) ==
    IF event = <<>> THEN w
    ELSE IF event[1].type = "Snapshot" THEN ContentOf(event[1].body[1].entities)
    ELSE IF event[1].type = "Delta" THEN ApplyChanges(w, event[1].body[1].changes)
    ELSE w

\* A call of manager m is recorded with what it returned and the manager
\* before and after it.
LinkCall(m, op, snapshot, returned) ==
    /\ Len(lk_calls) < MaxLinkOps
    /\ link' = [link EXCEPT ![m] = returned.manager]
    /\ lk_calls' = Append(lk_calls,
                          [manager |-> m, op |-> op, snapshot |-> snapshot,
                           result |-> returned.result, event |-> returned.event,
                           message |-> returned.message, delta |-> returned.delta,
                           before |-> link[m], after |-> returned.manager,
                           pending |-> Pending(link), world |-> lk_world[m]])
    /\ lk_world' = [lk_world EXCEPT ![m] = Consume(@, returned.event)]
    /\ UNCHANGED linkFrame

LinkSendSnapshot(m) ==
    /\ m \in Producers
    /\ \E snapshot \in LinkSnapshots :
          LinkCall(m, "send_snapshot", <<snapshot>>, send_snapshot(link[m], snapshot, now))

\* A snapshot of LinkSnapshots has one entity with one component of one
\* field, so the HashMap iteration order does not show.
LinkSendDelta(m) ==
    /\ m \in LinkManagers
    /\ \E snapshot \in LinkSnapshots :
          LinkCall(m, "send_delta", <<snapshot>>, send_delta(link[m], snapshot, now, "fwd"))

LinkPing(m) ==
    /\ m \in Producers
    /\ LinkCall(m, "ping", <<>>, send_control(link[m], MessagePing(link[m].schema_version)))

LinkRequestSnapshot(m) ==
    /\ m \in Consumers
    /\ LinkCall(m, "request_snapshot", <<>>,
                send_control(link[m], MessageRequestSnapshot(link[m].schema_version)))

LinkSendAck(m) ==
    /\ m \in Consumers
    /\ \E id \in AckIds :
          LinkCall(m, "send_ack", <<>>,
                   send_control(link[m], MessageAck(id, link[m].schema_version)))

LinkReceive(m) ==
    /\ m \in LinkManagers
    /\ LinkCall(m, "receive", <<>>, receive(link[m]))

LinkClose(m) ==
    /\ m \in LinkManagers
    /\ LinkCall(m, "close", <<>>, close(link[m]))

\* MemoryTransport::connect_to (transport.rs:48-51) on the two transports:
\* A's send buffer is swapped with B's receive buffer, A's receive buffer
\* with B's send buffer.  A transport that was closed is not connected again.
ConnectTo ==
    /\ link["A"].transport.connected
    /\ link["B"].transport.connected
    /\ link' = [link EXCEPT
                  !["A"].transport.send_buffer = link["B"].transport.receive_buffer,
                  !["B"].transport.receive_buffer = link["A"].transport.send_buffer,
                  !["A"].transport.receive_buffer = link["B"].transport.send_buffer,
                  !["B"].transport.send_buffer = link["A"].transport.receive_buffer]
    /\ UNCHANGED <<lk_calls, lk_world, linkFrame>>

NextLink ==
    \/ \E m \in LinkManagers :
          \/ LinkSendSnapshot(m)
          \/ LinkSendDelta(m)
          \/ LinkPing(m)
          \/ LinkRequestSnapshot(m)
          \/ LinkSendAck(m)
          \/ LinkReceive(m)
          \/ LinkClose(m)
    \/ ConnectTo

SpecLink == InitLink /\ [][NextLink]_vars

(***************************************************************************)
(* SpecStream: a StreamingSerializer writing frames, the flushed bytes     *)
(* travelling in chunks, and a StreamingDeserializer reading the frames    *)
(* back (serialization.rs:190-270)                                         *)
(***************************************************************************)
MaxWrites == 2

\* The number of values of a byte, scaled so that the four bytes of a length
\* prefix hold exactly the values 0..U32Max of the scaled u32.
ByteValues == 2

RECURSIVE Zeros(_)
Zeros(n) == IF n = 0 THEN <<>> ELSE <<0>> \o Zeros(n - 1)

\* The messages written to the stream: the controls, and snapshots of one
\* entity whose Binary component holds 1, 2 or 14 bytes.
StreamBinaries == {<<1>>, <<0, 1>>, Zeros(14)}
StreamMessages ==
    {MessagePing(1), MessagePong(1), MessageAck(1, 1)}
    \cup {MessageSnapshot(Entity1(Binary(b)), 0, 1) : b \in StreamBinaries}

\* The discriminant byte pair of the message type (protocol.rs:10-18).
type_bytes(msg_type) ==
    CASE msg_type = "Snapshot" -> <<0, 0>>
      [] msg_type = "Ack" -> <<0, 1>>
      [] msg_type = "Ping" -> <<1, 0>>
      [] msg_type = "Pong" -> <<1, 1>>

\* BinarySerializer::serialize_message (serialization.rs:50-65) down to the
\* bytes: the type, then the content, so that the length grows with the
\* content.
serialize_message_bytes(message) ==
    type_bytes(message.msg_type)
    \o (CASE message.msg_type = "Snapshot" ->
                 message.payload.entities[1].components[1].data.bin
          [] message.msg_type = "Ack" -> <<message.payload.ack_id>>
          [] OTHER -> <<>>)

\* BinarySerializer::deserialize_message (serialization.rs:67-82) on bytes:
\* the message these bytes encode, or the decode error.
deserialize_message_bytes(format, data) ==
    IF \E m \in StreamMessages : serialize_message_bytes(m) = data
    THEN [result |-> "Ok",
          message |-> <<CHOOSE m \in StreamMessages : serialize_message_bytes(m) = data>>]
    ELSE [result |-> decode_error(format), message |-> <<>>]

\* BufMut::put_u32_le (serialization.rs:208): the four bytes of n, least
\* significant first.
put_u32_le(n) ==
    <<n % ByteValues,
      (n \div ByteValues) % ByteValues,
      (n \div (ByteValues * ByteValues)) % ByteValues,
      (n \div (ByteValues * ByteValues * ByteValues)) % ByteValues>>

\* u32::from_le_bytes (serialization.rs:246-251)
from_le_bytes(b) ==
    b[1] + b[2] * ByteValues + b[3] * ByteValues * ByteValues
    + b[4] * ByteValues * ByteValues * ByteValues

\* data.len() as u32 (serialization.rs:207): the cast keeps the low bits.
len_as_u32(data) == Len(data) % (U32Max + 1)

\* StreamingSerializer::new and StreamingDeserializer::new
\* (serialization.rs:196-201, 231-236)
NewStreaming(format) == [format |-> format, buffer |-> <<>>]

\* StreamingSerializer::write_message (serialization.rs:204-213)
write_message(s, message) ==
    LET data == serialize_message_bytes(message)
    IN  [s EXCEPT !.buffer = @ \o put_u32_le(len_as_u32(data)) \o data]

\* StreamingSerializer::flush (serialization.rs:215-217): the bytes written
\* so far, leaving the buffer empty.
flush(s) == [bytes |-> s.buffer, serializer |-> [s EXCEPT !.buffer = <<>>]]

\* StreamingDeserializer::feed (serialization.rs:238-240)
feed(d, data) == [d EXCEPT !.buffer = @ \o data]

\* StreamingDeserializer::try_read_message (serialization.rs:241-265)
try_read_message(d) ==
    IF Len(d.buffer) < 4
    THEN [result |-> "Ok", message |-> <<>>, deserializer |-> d]
    ELSE LET len == from_le_bytes(SubSeq(d.buffer, 1, 4))
         IN  IF Len(d.buffer) < 4 + len
             THEN [result |-> "Ok", message |-> <<>>, deserializer |-> d]
             ELSE LET message_data == SubSeq(d.buffer, 5, 4 + len)
                      decoded == deserialize_message_bytes(d.format, message_data)
                  IN  [result |-> decoded.result, message |-> decoded.message,
                       deserializer |->
                          [d EXCEPT !.buffer = SubSeq(@, 5 + len, Len(@))]]

InitStream ==
    /\ stream_serializer = NewStreaming("MessagePack")
    /\ stream_wire = <<>>
    /\ stream_deserializer = NewStreaming("MessagePack")
    /\ st_written = <<>>
    /\ st_read = <<>>
    /\ st_last = <<>>
    /\ now = 0
    /\ IdleDelta
    /\ IdleRL
    /\ IdleTB
    /\ IdleSM
    /\ IdleSR
    /\ IdleSQ
    /\ IdleLK

streamFrame == <<now, dcVars, rlVars, tbVars, smVars, srVars, sqVars, lkVars>>

StreamCall(op, result, message, before) ==
    <<[op |-> op, result |-> result, message |-> message, before |-> before]>>

WriteMessage ==
    /\ Len(st_written) < MaxWrites
    /\ \E message \in StreamMessages :
          /\ stream_serializer' = write_message(stream_serializer, message)
          /\ st_written' = Append(st_written, message)
          /\ st_last' = StreamCall("write_message", "Ok", <<message>>, stream_deserializer)
    /\ UNCHANGED <<stream_wire, stream_deserializer, st_read, streamFrame>>

Flush ==
    /\ stream_serializer.buffer # <<>>
    /\ stream_serializer' = flush(stream_serializer).serializer
    /\ stream_wire' = stream_wire \o flush(stream_serializer).bytes
    /\ st_last' = StreamCall("flush", "Ok", <<>>, stream_deserializer)
    /\ UNCHANGED <<stream_deserializer, st_written, st_read, streamFrame>>

\* The next chunk of the flushed bytes reaches the deserializer.
Feed ==
    /\ \E size \in 1..(MaxWrites * (U32Max + 5)) :
          /\ size <= Len(stream_wire)
          /\ stream_deserializer' = feed(stream_deserializer, SubSeq(stream_wire, 1, size))
          /\ stream_wire' = SubSeq(stream_wire, size + 1, Len(stream_wire))
    /\ st_last' = StreamCall("feed", "Ok", <<>>, stream_deserializer)
    /\ UNCHANGED <<stream_serializer, st_written, st_read, streamFrame>>

TryReadMessage ==
    LET returned == try_read_message(stream_deserializer)
    IN  /\ stream_deserializer' = returned.deserializer
        /\ st_read' = IF returned.result = "Ok" /\ returned.message = <<>>
                      THEN st_read
                      ELSE Append(st_read, [result |-> returned.result,
                                            message |-> returned.message])
        /\ st_last' = StreamCall("try_read_message", returned.result, returned.message,
                                 stream_deserializer)
        /\ UNCHANGED <<stream_serializer, stream_wire, st_written, streamFrame>>

NextStream == WriteMessage \/ Flush \/ Feed \/ TryReadMessage

SpecStream == InitStream /\ [][NextStream]_vars

(***************************************************************************)
(* SpecControl: the two managers of SpecLink built with rate limiting on  *)
(***************************************************************************)
\* One message per window, field compression on.
ControlConfig == SyncConfig(TRUE, SyncRateLimit, TRUE, TRUE, 2)

InitControl ==
    /\ link = [m \in LinkManagers |->
                  NewSyncManager(MemoryTransport(LinkFormat, <<>>), ControlConfig)]
    /\ lk_calls = <<>>
    /\ lk_world = [m \in LinkManagers |-> EmptyWorld]
    /\ now = 0
    /\ IdleDelta
    /\ IdleRL
    /\ IdleTB
    /\ IdleSM
    /\ IdleSR
    /\ IdleSQ
    /\ IdleST

SpecControl == InitControl /\ [][NextLink]_vars

(***************************************************************************)
(* SpecDelta: one DeltaCompressor fed a sequence of snapshots, and the     *)
(* receiver of its deltas                                                  *)
(***************************************************************************)
InitDelta ==
    /\ previous_snapshot = <<>>
    /\ enabled \in BOOLEAN
    /\ delta = NoDelta
    /\ dc_op = "new"
    /\ dc_before = <<>>
    /\ dc_resets = FALSE
    /\ dc_calls = 0
    /\ dc_after_reset = FALSE
    /\ world = EmptyWorld
    /\ now = 0
    /\ IdleRL
    /\ IdleTB
    /\ IdleSM
    /\ IdleSR
    /\ IdleSQ
    /\ IdleLK
    /\ IdleST

\* compressor.create_delta(snapshot); the receiver applies the returned delta.
CreateDelta ==
    /\ dc_calls < MaxSnapshots
    /\ \E entities \in EntityLists, ord \in HashOrders :
          LET snapshot == WorldSnapshot(entities, 100 * (dc_calls + 1))
              d == create_delta(enabled, previous_snapshot, snapshot, ord)
          IN  /\ delta' = d
              /\ previous_snapshot' = <<snapshot>>
              /\ dc_before' = previous_snapshot
              /\ world' = ApplyChanges(world, d.changes)
    /\ dc_op' = "create_delta"
    /\ dc_calls' = dc_calls + 1
    /\ dc_after_reset' = (dc_op = "reset")
    /\ UNCHANGED <<enabled, dc_resets, now, rlVars, tbVars, smVars, srVars, sqVars, lkVars, stVars>>

\* compressor.reset()
Reset ==
    /\ dc_op # "reset"
    /\ previous_snapshot' = reset_previous(previous_snapshot)
    /\ dc_before' = previous_snapshot
    /\ dc_op' = "reset"
    /\ dc_resets' = TRUE
    /\ UNCHANGED <<enabled, delta, dc_calls, dc_after_reset, world, now, rlVars, tbVars, smVars, srVars, sqVars, lkVars, stVars>>

NextDelta == CreateDelta \/ Reset

SpecDelta == InitDelta /\ [][NextDelta]_vars

(***************************************************************************)
(* Claims on the delta compressor (SpecDelta)                              *)
(***************************************************************************)
LastSnapshot == previous_snapshot[1]

\* Some Structured component of the entity list holds a NaN float.
HasNaN(entities) ==
    \E i \in DOMAIN entities : \E j \in DOMAIN entities[i].components :
        LET d == entities[i].components[j].data
        IN  d.tag = "Structured" /\ \E k \in DOMAIN d.fields : d.fields[k].nan

\* The call just made was create_delta on a snapshot with the content of the
\* stored previous one.
SameContentAgain ==
    /\ dc_op = "create_delta"
    /\ dc_before # <<>>
    /\ ContentOf(dc_before[1].entities) = ContentOf(LastSnapshot.entities)

\* C1 (delta soundness): with no reset(), after every create_delta the
\* receiver, having applied all the deltas emitted so far in order, holds
\* exactly the entities, components and field values of the last snapshot.
C1_DeltaSoundness ==
    ~dc_resets =>
        CanonWorld(world) =
            CanonWorld(IF previous_snapshot = <<>> THEN EmptyWorld
                       ELSE ContentOf(LastSnapshot.entities))

C3_ResetLaw ==
    (dc_op = "create_delta" /\ dc_after_reset) =>
        /\ delta.changes = create_delta(enabled, <<>>, LastSnapshot, "fwd").changes
        /\ delta.base_timestamp = 0

C3_Witness ==
    /\ dc_op = "create_delta"
    /\ dc_after_reset
    /\ dc_calls >= 2
    /\ Len(delta.changes) >= 3


(***************************************************************************)
(* Claims about the sliding-window RateLimiter (SpecRL)                    *)
(***************************************************************************)
Config == rate_limiter.config
IsOk(c) == c.result = "Ok"
Admitted == SelectSeq(rl_calls, IsOk)
CountIn(records, from, upto) ==
    Cardinality({i \in DOMAIN records :
                   records[i].timestamp >= from /\ records[i].timestamp <= upto})
BytesIn(records, from, upto) ==
    SumSizes(SelectSeq(records, LAMBDA r : r.timestamp >= from /\ r.timestamp <= upto))
LastCall == rl_calls[Len(rl_calls)]
\* The messages admitted before the last call.
AdmittedBeforeLast ==
    IF IsOk(LastCall) THEN SubSeq(Admitted, 1, Len(Admitted) - 1) ELSE Admitted

\* C5: over any sequence of check_and_record calls, total_messages is the
\* number of calls that returned Ok, total_rejected the number that returned
\* Err, and the two add up to the number of calls.
C5_Accounting ==
    /\ rate_limiter.total_messages = Len(Admitted)
    /\ rate_limiter.total_rejected = Len(SelectSeq(rl_calls, LAMBDA c : ~IsOk(c)))
    /\ rate_limiter.total_messages + rate_limiter.total_rejected = Len(rl_calls)

C5_Witness ==
    /\ rate_limiter.total_messages >= 2
    /\ rate_limiter.total_rejected >= 2

\* C6: with a fixed config and no reset(), the admitted calls in any interval
\* of length window_duration never exceed max_messages_per_second, those in
\* any 100 ms interval never exceed burst_size, and max_messages_per_second
\* back-to-back calls (byte and burst budget sufficient) all succeed and the
\* next one is rejected.  Intervals are taken half-open, [t, t + length).
C6_MessageAndBurstCaps ==
    ~rl_reset_seen =>
      /\ \A i \in DOMAIN Admitted :
            LET t == Admitted[i].timestamp
            IN  /\ CountIn(Admitted, t, t + Config.window_duration - 1)
                      <= Config.max_messages_per_second
                /\ CountIn(Admitted, t, t + BurstWindow - 1) <= Config.burst_size
      /\ LET n == Config.max_messages_per_second
         IN  ( /\ Config.burst_size >= n
               /\ \A k \in DOMAIN rl_calls : rl_calls[k].timestamp = rl_calls[1].timestamp
               /\ \A k \in DOMAIN rl_calls :
                     k <= n => SumSizes(SubSeq(rl_calls, 1, k)) <= Config.max_bytes_per_second )
             => \A k \in DOMAIN rl_calls :
                   /\ k <= n => IsOk(rl_calls[k])
                   /\ k = n + 1 => ~IsOk(rl_calls[k])

IdleBefore(k, i) ==
    /\ i < k
    /\ IsOk(rl_calls[i])
    /\ \A j \in (i + 1)..(k - 1) :
          ~IsOk(rl_calls[j]) /\ rl_calls[j].timestamp = rl_calls[i].timestamp
IdleGap(k, i) == rl_calls[k].timestamp - rl_calls[i].timestamp

\* From call k on, the next max_messages_per_second calls are admitted as far
\* as the byte budget covers them.
NextBurstAdmitted(k) ==
    \A j \in k..(k + Config.max_messages_per_second - 1) :
       (j <= Len(rl_calls) /\ SumSizes(SubSeq(rl_calls, k, j)) <= Config.max_bytes_per_second)
          => IsOk(rl_calls[j])

\* C8 (as stated): when no call is made for a time d >= window_duration
\* (exactly equal included) after the last admitted message, the next
\* max_messages_per_second consecutive calls are all admitted (burst_size >=
\* max_messages_per_second, byte budget sufficient).
C8_IdleWindowInclusive ==
    Config.burst_size >= Config.max_messages_per_second =>
       \A k, i \in DOMAIN rl_calls :
          (IdleBefore(k, i) /\ IdleGap(k, i) >= Config.window_duration)
             => NextBurstAdmitted(k)

\* C8 (amended): the same for an idle time strictly longer than
\* window_duration.
C8_IdleWindowStrict ==
    Config.burst_size >= Config.max_messages_per_second =>
       \A k, i \in DOMAIN rl_calls :
          (IdleBefore(k, i) /\ IdleGap(k, i) > Config.window_duration)
             => NextBurstAdmitted(k)

\* The window was full, the limiter idled for longer than the window, and a
\* full burst of max_messages_per_second calls was then admitted.
C8_Witness ==
    /\ Config.burst_size >= Config.max_messages_per_second
    /\ \E k, i \in DOMAIN rl_calls :
          /\ IdleBefore(k, i)
          /\ IdleGap(k, i) > Config.window_duration
          /\ CountIn(SubSeq(rl_calls, 1, i), rl_calls[i].timestamp, rl_calls[i].timestamp)
                = Config.max_messages_per_second
          /\ k + Config.max_messages_per_second - 1 = Len(rl_calls)
          /\ \A j \in k..Len(rl_calls) : IsOk(rl_calls[j])

\* C9: check_and_record evaluates message count, byte sum, burst in this
\* order and returns the error of the first check that fails; a rejected
\* call appends no record to either history, leaves total_messages and
\* total_bytes alone and adds one to total_rejected.
C9_CheckOrder ==
    [][ Len(rl_calls') = Len(rl_calls) + 1 =>
          LET c == rl_calls'[Len(rl_calls')]
              InWindow(r) == r.timestamp >= c.timestamp - Config.window_duration
              InBurst(r) == r.timestamp >= c.timestamp - BurstWindow
              messages == SelectSeq(rate_limiter.message_history, InWindow)
              bytes == SelectSeq(rate_limiter.byte_history, InWindow)
              first_failing ==
                 IF Len(messages) >= Config.max_messages_per_second THEN "MessageRate"
                 ELSE IF SumSizes(bytes) + c.size > Config.max_bytes_per_second THEN "ByteRate"
                 ELSE IF Len(SelectSeq(messages, InBurst)) >= Config.burst_size THEN "Burst"
                 ELSE "Ok"
          IN  /\ c.result = first_failing
              /\ ~IsOk(c) =>
                    /\ \E n \in 0..Len(rate_limiter.message_history) :
                          rate_limiter'.message_history =
                             SubSeq(rate_limiter.message_history, n + 1,
                                    Len(rate_limiter.message_history))
                    /\ \E n \in 0..Len(rate_limiter.byte_history) :
                          rate_limiter'.byte_history =
                             SubSeq(rate_limiter.byte_history, n + 1,
                                    Len(rate_limiter.byte_history))
                    /\ rate_limiter'.total_messages = rate_limiter.total_messages
                    /\ rate_limiter'.total_bytes = rate_limiter.total_bytes
                    /\ rate_limiter'.total_rejected = rate_limiter.total_rejected + 1
      ]_vars

\* A call rejected for the message rate although the byte check and the burst
\* check fail for it too.
C9_Witness ==
    /\ rl_calls # <<>>
    /\ LastCall.result = "MessageRate"
    /\ rate_limiter.total_rejected >= 1
    /\ count_bytes_in_window(rate_limiter, now) + LastCall.size
          > Config.max_bytes_per_second
    /\ count_recent_burst(rate_limiter, now) >= Config.burst_size


\* C36: for every message size of the u64 range check_and_record rejects
\* the call whenever the bytes already in the window plus the size exceed
\* max_bytes_per_second, also when that sum does not fit the type, and no
\* admitted call makes total_bytes or the in-window byte sum wrap around.
C36_ByteBudgetNoWrap ==
    \A i \in DOMAIN rl_calls :
       /\ rl_calls[i].in_window + rl_calls[i].size > rate_limiter.config.max_bytes_per_second
             => rl_calls[i].result \in {"MessageRate", "ByteRate", "Burst"}
       /\ rl_calls[i].result = "Ok"
             => /\ rl_calls[i].in_window + rl_calls[i].size <= U64Max
                /\ rl_calls[i].total_before + rl_calls[i].size <= U64Max

(***************************************************************************)
(* Claims about the TokenBucketRateLimiter (SpecTB)                        *)
(***************************************************************************)
IsConsume(c) == c.op = "check_and_consume"
\* Call e took the last token and every call after it up to call k was a
\* rejected check_and_consume.
EmptiedBefore(k, e) ==
    /\ e < k
    /\ IsConsume(tb_calls[e]) /\ tb_calls[e].result = "Ok" /\ tb_calls[e].tokens = 0
    /\ \A j \in (e + 1)..(k - 1) : IsConsume(tb_calls[j]) /\ tb_calls[j].result = "Err"

\* C10: a fresh bucket of capacity C >= 1 and refill rate R >= 1 admits
\* exactly the first C check_and_consume calls made with no time elapsing,
\* rejects the (C+1)-th, and admits a call made at least 1/R seconds after
\* the bucket was emptied.
C10_TokenBucket ==
    /\ \A k \in DOMAIN tb_calls :
          (\A j \in 1..k : IsConsume(tb_calls[j]) /\ tb_calls[j].timestamp = 0)
             => /\ k <= token_bucket.capacity => tb_calls[k].result = "Ok"
                /\ k = token_bucket.capacity + 1 => tb_calls[k].result = "Err"
    /\ \A k, e \in DOMAIN tb_calls :
          ( /\ EmptiedBefore(k, e)
            /\ IsConsume(tb_calls[k])
            /\ (tb_calls[k].timestamp - tb_calls[e].timestamp) * token_bucket.refill_rate
                  >= TicksPerSecond )
             => tb_calls[k].result = "Ok"

\* The fresh bucket was drained by C calls at instant 0, the next call was
\* rejected, another was rejected a little later, and the call 1/R seconds
\* after the draining was admitted.
C10_Witness ==
    /\ token_bucket.capacity >= 2
    /\ Len(tb_calls) = token_bucket.capacity + 3
    /\ \A j \in 1..(token_bucket.capacity + 1) :
          IsConsume(tb_calls[j]) /\ tb_calls[j].timestamp = 0
    /\ tb_calls[token_bucket.capacity + 1].result = "Err"
    /\ EmptiedBefore(Len(tb_calls), token_bucket.capacity)
    /\ tb_calls[Len(tb_calls) - 1].timestamp > 0
    /\ tb_calls[Len(tb_calls)].result = "Ok"
    /\ tb_calls[Len(tb_calls)].timestamp * token_bucket.refill_rate >= TicksPerSecond


\* Only check_and_consume was called, and every two consecutive calls are at
\* least 1/R seconds apart.
SteadyCalls ==
    /\ \A k \in DOMAIN tb_calls : IsConsume(tb_calls[k])
    /\ \A k \in 2..Len(tb_calls) :
          (tb_calls[k].timestamp - tb_calls[k - 1].timestamp) * token_bucket.refill_rate
             >= TicksPerSecond

\* C11: token bucket steady state: for capacity C >= 1 and rate R >= 1, if
\* every two consecutive check_and_consume calls are at least 1/R seconds
\* apart, no call is ever rejected.
C11_SteadyState ==
    SteadyCalls => \A k \in DOMAIN tb_calls : tb_calls[k].result # "Err"

\* The step is a check_and_consume call.
ConsumeStep ==
    /\ Len(tb_calls') = Len(tb_calls) + 1
    /\ tb_calls'[Len(tb_calls')].op = "check_and_consume"

\* floor(elapsed_seconds * R) at the call, and the tokens the refill is to
\* leave.
TokensDue == ((now' - token_bucket.last_refill) * token_bucket.refill_rate) \div TicksPerSecond
TokensAfterRefill == Min(token_bucket.capacity, token_bucket.tokens + TokensDue)

RefillAsSpecified ==
    ConsumeStep =>
       /\ tb_calls'[Len(tb_calls')].result # "Panic"
       /\ token_bucket'.tokens =
             IF TokensAfterRefill > 0 THEN TokensAfterRefill - 1 ELSE 0
       /\ token_bucket'.last_refill =
             IF TokensDue > 0 THEN now' ELSE token_bucket.last_refill

\* C37: after any calls of check_and_consume and reset 0 <= tokens <= C, a
\* refill sets tokens to min(C, tokens + floor(elapsed_seconds * R)), also
\* when the sum exceeds the range of the counter's type, and last_refill
\* advances only when at least one token is added.
C37_TokenRange ==
    /\ [](token_bucket.tokens >= 0 /\ token_bucket.tokens <= token_bucket.capacity)
    /\ [][RefillAsSpecified]_vars

(***************************************************************************)
(* Claims about the SyncManager (SpecSync)                                 *)
(***************************************************************************)
\* Call k is the retry of a send_delta that the rate limiter rejected: the
\* call before it was send_delta of the same snapshot and failed with
\* RateLimitExceeded, and the limiter admits a message at the time of call k.
RetryOfRejected(k) ==
    /\ k > 1
    /\ sm_calls[k - 1].op = "send_delta"
    /\ sm_calls[k - 1].result = "RateLimitExceeded"
    /\ sm_calls[k].op = "send_delta"
    /\ sm_calls[k].snapshot = sm_calls[k - 1].snapshot
    /\ sm_calls[k].admissible

\* C4: a rate-limit rejection of send_delta is recoverable by retry: when
\* send_delta(S) failed with RateLimitExceeded and is called again once the
\* limiter admits, the delta carrying the changes of S relative to the last
\* transmitted state is sent.
C4_RetrySendsDelta ==
    \A k \in DOMAIN sm_calls :
       RetryOfRejected(k) =>
          \E ord \in HashOrders :
             LET expected == create_delta(enabled, sm_calls[k].base,
                                          sm_calls[k].snapshot, ord).changes
             IN  IF expected = <<>>
                 THEN sm_calls[k].message = <<>>
                 ELSE /\ sm_calls[k].message # <<>>
                      /\ sm_calls[k].message[1].msg_type = "Delta"
                      /\ sm_calls[k].message[1].payload.changes = expected


C13_VersionsNeverRegress ==
    \A c \in DOMAIN schemas :
       /\ schemas[c].version >= sr_max[c]
       /\ sr_first[<<c, schemas[c].version>>] = schemas[c]

\* C14 (as stated): get_version(id, v) returns the stored schema if and only
\* if the stored version for id equals v; in every other case, no schema
\* registered for id included, it returns SchemaMismatch{expected: v, actual}.
C14_GetVersionOrMismatch ==
    sr_last.op = "get_version" =>
       IF /\ sr_last.component_id \in DOMAIN schemas
          /\ schemas[sr_last.component_id].version = sr_last.version
       THEN /\ sr_last.result = "Ok"
            /\ sr_last.returned = <<schemas[sr_last.component_id]>>
       ELSE /\ sr_last.result = "SchemaMismatch"
            /\ sr_last.expected = sr_last.version

\* C14 (amended): as above when a schema is stored for id (SchemaMismatch
\* carries expected = v and actual = the stored version); when none is
\* registered for id, get_version returns SchemaNotFound.
C14_GetVersionOrNotFound ==
    sr_last.op = "get_version" =>
       IF /\ sr_last.component_id \in DOMAIN schemas
          /\ schemas[sr_last.component_id].version = sr_last.version
       THEN /\ sr_last.result = "Ok"
            /\ sr_last.returned = <<schemas[sr_last.component_id]>>
       ELSE IF sr_last.component_id \in DOMAIN schemas
       THEN /\ sr_last.result = "SchemaMismatch"
            /\ sr_last.returned = <<>>
            /\ sr_last.expected = sr_last.version
            /\ sr_last.actual = schemas[sr_last.component_id].version
       ELSE /\ sr_last.result = "SchemaNotFound"
            /\ sr_last.returned = <<>>

\* get_version was asked for a superseded version of the history.
C14_Witness ==
    /\ sr_last.op = "get_version"
    /\ sr_last.result = "SchemaMismatch"
    /\ sr_last.version \in Range(get_version_history(version_history, sr_last.component_id))
    /\ sr_last.actual > sr_last.expected

\* C15: validate_component(id, fields) returns Ok exactly when a schema is
\* registered for id, every non-optional field of the schema is present and
\* every present field of the schema has the declared type; fields the
\* schema does not declare never cause a rejection; a missing required field
\* or a wrong type gives InvalidMessage, an unregistered id SchemaNotFound.
C15_Validation ==
    sr_last.op = "validate_component" =>
       LET c == sr_last.component_id
           presented == sr_last.fields
           registered == c \in DOMAIN schemas
           declared == IF registered THEN Range(schemas[c].fields) ELSE {}
           required_present ==
               \A d \in declared : ~d.optional => d.field_id \in DOMAIN presented
           types_match ==
               \A d \in declared :
                  d.field_id \in DOMAIN presented => presented[d.field_id] = d.field_type
       IN  /\ sr_last.result = "Ok" <=> registered /\ required_present /\ types_match
           /\ ~registered => sr_last.result = "SchemaNotFound"
           /\ registered /\ ~(required_present /\ types_match)
                 => sr_last.result = "InvalidMessage"

\* A component was accepted with an undeclared field and without its
\* optional field.
C15_Witness ==
    /\ sr_last.op = "validate_component"
    /\ sr_last.result = "Ok"
    /\ "extra" \in DOMAIN sr_last.fields
    /\ "y" \notin DOMAIN sr_last.fields
    /\ \E i \in DOMAIN schemas[sr_last.component_id].fields :
          schemas[sr_last.component_id].fields[i].optional

\* What get_version_history returns for c now, and after the step.
History(c) == get_version_history(version_history, c)
HistoryAfter(c) == get_version_history(version_history', c)

RegisteredOk(c) ==
    /\ sr_ops' = sr_ops + 1
    /\ sr_last'.op = "register"
    /\ sr_last'.result = "Ok"
    /\ sr_last'.component_id = c

Cleared == sr_ops' = sr_ops + 1 /\ sr_last'.op = "clear"

\* The shape of every history: strictly increasing, non-empty exactly for
\* the components with a stored schema, ending in the stored version.
HistoryShape ==
    \A c \in RegistryComponents :
       /\ \A i, j \in DOMAIN History(c) : i < j => History(c)[i] < History(c)[j]
       /\ History(c) # <<>> <=> c \in DOMAIN schemas
       /\ History(c) # <<>> => History(c)[Len(History(c))] = schemas[c].version

\* A successful register appends its version, clear empties every history,
\* nothing else touches one.
HistoryStep ==
    \A c \in RegistryComponents :
       HistoryAfter(c) = IF Cleared THEN <<>>
                         ELSE IF RegisteredOk(c) THEN Append(History(c), sr_last'.version)
                         ELSE History(c)

\* C35: for every component get_version_history returns the versions of the
\* successful register calls since the last clear, in registration order and
\* strictly increasing; it is non-empty exactly when a schema is stored for
\* the component and then ends with the stored schema's version.
C35_VersionHistory == []HistoryShape /\ [][HistoryStep]_vars

\* Version 2 was registered and cleared away, then versions 1 and 3 were
\* registered.
C35_Witness ==
    \E c \in RegistryComponents :
       /\ History(c) = <<1, 3>>
       /\ <<c, 2>> \in DOMAIN sr_first

(***************************************************************************)
(* Claims about the shared SchemaRegistry (SpecShared)                     *)
(***************************************************************************)
SameNewVersion ==
    /\ threads[1].schema.component_id = threads[2].schema.component_id
    /\ threads[1].schema.version = threads[2].schema.version
    /\ \A c \in DOMAIN sr_max : c = threads[1].schema.component_id
                                   => threads[1].schema.version > sr_max[c]

Succeeded == {t \in Writers : threads[t].result = "Ok"}

TimesInHistory(c, v) ==
    Cardinality({i \in DOMAIN get_version_history(version_history, c) :
                    get_version_history(version_history, c)[i] = v})

SendOps == {"send_snapshot", "send_delta"}

\* The step is a call of the manager; Called is its record.
IsCall == Len(sm_calls') = Len(sm_calls) + 1
Called == sm_calls'[Len(sm_calls')]

LastSyncCall == sm_calls[Len(sm_calls)]

\* C17: on a disconnected transport send_snapshot and send_delta return
\* ConnectionClosed and leave the delta compressor, the rate limiter,
\* last_sync and sync_count alone; reconnect_attempts grows by one only if
\* auto_reconnect is on and reconnect_attempts < max_reconnect_attempts, and
\* reconnect_attempts <= max_reconnect_attempts in every reachable state.
C17_Disconnected ==
    /\ [](reconnect_attempts <= sm_config.max_reconnect_attempts)
    /\ [][ (IsCall /\ Called.op \in SendOps /\ ~transport.connected)
           => /\ Called.result = "ConnectionClosed"
              /\ Called.message = <<>>
              /\ UNCHANGED <<previous_snapshot, enabled, sm_rate_limiter, last_sync,
                             sync_count, transport>>
              /\ reconnect_attempts' =
                    IF /\ sm_config.auto_reconnect
                       /\ reconnect_attempts < sm_config.max_reconnect_attempts
                    THEN reconnect_attempts + 1
                    ELSE reconnect_attempts
         ]_vars

\* Three sends on the closed transport: the attempts were counted up to the
\* maximum of 2 and the third send left them there.
C17_Witness ==
    /\ ~transport.connected
    /\ sm_config.auto_reconnect
    /\ sm_config.max_reconnect_attempts = 2
    /\ reconnect_attempts = 2
    /\ Len(sm_calls) = 3
    /\ \A k \in DOMAIN sm_calls : /\ sm_calls[k].op \in SendOps
                                  /\ sm_calls[k].result = "ConnectionClosed"

\* A send rejected by the limiter returns RateLimitExceeded, hands nothing to
\* the transport and leaves last_sync, sync_count and reconnect_attempts alone.
RejectedSendFrame ==
    (IsCall /\ Called.op \in SendOps /\ transport.connected
       /\ (Called.op = "send_delta" =>
              \A ord \in HashOrders :
                 ~nothing_to_send(create_delta(enabled, previous_snapshot,
                                               Called.snapshot, ord)))
       /\ ~Called.admissible)
    => /\ Called.result = "RateLimitExceeded"
       /\ Called.message = <<>>
       /\ UNCHANGED <<transport, last_sync, sync_count, reconnect_attempts>>

\* The manager was only asked send_snapshot, back to back (no time passed),
\* on a connected transport with the limiter on.
BackToBackSnapshots ==
    /\ now = 0
    /\ transport.connected
    /\ sm_config.enable_rate_limiting
    /\ \A k \in DOMAIN sm_calls : sm_calls[k].op = "send_snapshot"

\* The first N = max_messages_per_second calls succeeded, the later ones
\* failed.
FirstNSucceed ==
    \A k \in DOMAIN sm_calls :
       sm_calls[k].result =
          IF k <= sm_config.rate_limit_config.max_messages_per_second
          THEN "Ok" ELSE "RateLimitExceeded"

\* C18 (as stated): the limiter is consulted before the transport (a
\* rejected send returns RateLimitExceeded, sends nothing, leaves last_sync,
\* sync_count and reconnect_attempts alone), and with max_messages_per_second
\* = N the (N+1)-th back-to-back send_snapshot fails after N successes.
C18_RejectedThenNPlusOne ==
    /\ [][RejectedSendFrame]_vars
    /\ [](BackToBackSnapshots => FirstNSucceed)

\* C18 (amended): as above, the back-to-back part for configs whose
\* burst_size is at least N and whose max_bytes_per_second is at least
\* N * 1024.
C18_LimiterBeforeTransport ==
    /\ [][RejectedSendFrame]_vars
    /\ []( ( /\ BackToBackSnapshots
             /\ sm_config.rate_limit_config.burst_size
                   >= sm_config.rate_limit_config.max_messages_per_second
             /\ sm_config.rate_limit_config.max_bytes_per_second
                   >= sm_config.rate_limit_config.max_messages_per_second * estimated_size )
           => FirstNSucceed )

\* N = 2: the third back-to-back send_snapshot failed after two successes.
C18_Witness ==
    /\ BackToBackSnapshots
    /\ sm_config.rate_limit_config.max_messages_per_second = 2
    /\ Len(sm_calls) = 3
    /\ sm_calls[3].result = "RateLimitExceeded"
    /\ Len(transport.send_buffer) = 2
    /\ sync_count = 2

\* C19: when the delta computed by send_delta has no changes, send_delta
\* returns Ok, hands nothing to the transport, neither consults nor records
\* in the rate limiter, and leaves last_sync, sync_count and
\* reconnect_attempts alone.
C19_EmptyDeltaFrame ==
    [][ (IsCall /\ Called.op = "send_delta" /\ transport.connected
           /\ \E ord \in HashOrders :
                 create_delta(enabled, previous_snapshot, Called.snapshot, ord).changes = <<>>)
        => /\ Called.result = "Ok"
           /\ Called.message = <<>>
           /\ UNCHANGED <<transport, sm_rate_limiter, last_sync, sync_count,
                          reconnect_attempts>>
      ]_vars

\* An empty delta returned Ok at a moment the limiter would have rejected a
\* message.
C19_Witness ==
    /\ sm_calls # <<>>
    /\ LastSyncCall.op = "send_delta"
    /\ LastSyncCall.result = "Ok"
    /\ LastSyncCall.message = <<>>
    /\ ~LastSyncCall.admissible
    /\ sync_count = 1

\* The calls that handed a Snapshot or a Delta message to the transport.
Synced ==
    {k \in DOMAIN sm_calls :
        /\ sm_calls[k].message # <<>>
        /\ sm_calls[k].message[1].msg_type \in {"Snapshot", "Delta"}}

\* C20: in every reachable state sync_count is the number of Snapshot and
\* Delta messages send_snapshot/send_delta handed to the transport; failed,
\* rate-limited and empty-delta calls and ping/ack/request messages do not
\* count.
C20_SyncCount ==
    /\ sync_count = Cardinality(Synced)
    /\ \A k \in DOMAIN sm_calls :
          k \in Synced <=> sm_calls[k].op \in SendOps /\ sm_calls[k].result = "Ok"
                              /\ sm_calls[k].message # <<>>

\* One snapshot was sent, then a ping, then a send was refused by the
\* limiter: one message counted.
C20_Witness ==
    /\ Len(sm_calls) = 3
    /\ sm_calls[1].op = "send_snapshot" /\ sm_calls[1].result = "Ok"
    /\ sm_calls[2].op = "ping" /\ sm_calls[2].result = "Ok"
    /\ sm_calls[3].op \in SendOps /\ sm_calls[3].result = "RateLimitExceeded"
    /\ sync_count = 1

(***************************************************************************)
(* Claims about the shape of the deltas (SpecDelta)                        *)
(***************************************************************************)
\* The snapshot the last create_delta was given.
Fed == previous_snapshot[1]

\* The index of the EntityAdded of the i-th entity of the snapshot fed when
\* every entity is followed by its components.
RECURSIVE SlotOf(_)
SlotOf(i) == IF i = 1 THEN 1 ELSE SlotOf(i - 1) + 1 + Len(Fed.entities[i - 1].components)

FirstCall == dc_op = "create_delta" /\ dc_before = <<>>

\* C28: on a compressor without a previous snapshot create_delta(S) returns
\* base_timestamp 0 and, for each entity of S in sequence order, one
\* EntityAdded immediately followed by one ComponentAdded per component in
\* component order, and nothing else.
C28_InitialDelta ==
    FirstCall =>
       /\ delta.base_timestamp = 0
       /\ Len(delta.changes) = Len(Fed.entities) + CountComponents(Fed.entities)
       /\ \A i \in DOMAIN Fed.entities :
             /\ delta.changes[SlotOf(i)] = EntityAdded(Fed.entities[i].id)
             /\ \A j \in DOMAIN Fed.entities[i].components :
                   delta.changes[SlotOf(i) + j] =
                      ComponentAdded(Fed.entities[i].id, Fed.entities[i].components[j].id,
                                     Fed.entities[i].components[j].data)

\* Entity 2 with two components came first and entity 1 second, after a
\* reset.
C28_Witness ==
    /\ FirstCall
    /\ dc_resets
    /\ Len(Fed.entities) = 2
    /\ Fed.entities[1].id = 2
    /\ Len(Fed.entities[1].components) = 2
    /\ Len(delta.changes) >= 4

\* C29: in every Delta create_delta returns, an entity reported as
\* EntityAdded has its EntityAdded before each of its ComponentAdded changes.
C29_EntityAddedFirst ==
    dc_op = "create_delta" =>
       \A j \in DOMAIN delta.changes :
          ( /\ delta.changes[j].type = "ComponentAdded"
            /\ EntityAdded(delta.changes[j].entity_id) \in Range(delta.changes) )
          => \E i \in 1..(j - 1) : delta.changes[i] = EntityAdded(delta.changes[j].entity_id)

\* A later call added an entity with two components next to an entity that
\* only got a component added.
C29_Witness ==
    /\ dc_op = "create_delta"
    /\ dc_before # <<>>
    /\ \E e \in Range(EntityOrder) :
          /\ EntityAdded(e) \in Range(delta.changes)
          /\ Cardinality({j \in DOMAIN delta.changes :
                             /\ delta.changes[j].type = "ComponentAdded"
                             /\ delta.changes[j].entity_id = e}) = 2
    /\ \E j \in DOMAIN delta.changes :
          /\ delta.changes[j].type = "ComponentAdded"
          /\ EntityAdded(delta.changes[j].entity_id) \notin Range(delta.changes)

\* Both the previous and the current snapshot hold one entity with one
\* Structured component of the same id, and field compression is on.
StructuredPair ==
    /\ dc_op = "create_delta"
    /\ enabled
    /\ dc_before # <<>>
    /\ Len(dc_before[1].entities) = 1 /\ Len(Fed.entities) = 1
    /\ dc_before[1].entities[1].id = Fed.entities[1].id
    /\ Len(dc_before[1].entities[1].components) = 1
    /\ Len(Fed.entities[1].components) = 1
    /\ dc_before[1].entities[1].components[1].id = Fed.entities[1].components[1].id
    /\ dc_before[1].entities[1].components[1].data.tag = "Structured"
    /\ Fed.entities[1].components[1].data.tag = "Structured"

OldFields == dc_before[1].entities[1].components[1].data.fields
NewFields == Fed.entities[1].components[1].data.fields

\* The fields added, changed (unequal under FieldValue's ==) or removed.
TouchedFields ==
    {f \in DOMAIN OldFields \cup DOMAIN NewFields :
        \/ f \notin DOMAIN OldFields
        \/ f \notin DOMAIN NewFields
        \/ ~FieldValueEq(OldFields[f], NewFields[f])}

\* The FieldDelta the claim expects for a touched field.
ExpectedFieldDelta(f) ==
    IF f \notin DOMAIN OldFields THEN FieldDelta(f, FALSE, FNull, NewFields[f])
    ELSE IF f \notin DOMAIN NewFields THEN FieldDelta(f, TRUE, OldFields[f], FNull)
    ELSE FieldDelta(f, TRUE, OldFields[f], NewFields[f])

\* C30: compute_field_deltas on two Structured components returns exactly
\* one FieldDelta per added, changed or removed field (old_value none /
\* previous / previous, new_value new / new / null) and none for an
\* unchanged field; one differing field f gives exactly one FieldDelta, of
\* f, with the new component's value.
C30_FieldDeltas ==
    StructuredPair =>
       IF TouchedFields = {}
       THEN delta.changes = <<>>
       ELSE /\ Len(delta.changes) = 1
            /\ delta.changes[1].type = "FieldsUpdated"
            /\ Len(delta.changes[1].fields) = Cardinality(TouchedFields)
            /\ Range(delta.changes[1].fields) = {ExpectedFieldDelta(f) : f \in TouchedFields}

\* One field changed and one was removed.
C30_Witness ==
    /\ StructuredPair
    /\ Cardinality(TouchedFields) = 2
    /\ \E f \in TouchedFields : f \notin DOMAIN NewFields
    /\ \E f \in TouchedFields : f \in DOMAIN NewFields /\ f \in DOMAIN OldFields

\* A create_delta on a compressor that held a previous snapshot.
Subsequent == dc_op = "create_delta" /\ dc_before # <<>>

Before == dc_before[1]

IdsOf(items) == {items[i].id : i \in DOMAIN items}

ItemOf(items, id) == CHOOSE x \in Range(items) : x.id = id

\* The positions of the changes of a type about an entity, and about a
\* component of it.
EntityChanges(type, e) ==
    {j \in DOMAIN delta.changes :
        delta.changes[j].type = type /\ delta.changes[j].entity_id = e}

ComponentChanges(e, c) ==
    {j \in DOMAIN delta.changes :
        /\ delta.changes[j].type \in {"ComponentAdded", "ComponentRemoved",
                                      "ComponentUpdated", "FieldsUpdated"}
        /\ delta.changes[j].entity_id = e
        /\ delta.changes[j].component_id = c}

\* C32: on a later create_delta, an entity only in the current snapshot gets
\* exactly one EntityAdded and one ComponentAdded per component, an entity
\* only in the previous one exactly one EntityRemoved and no
\* ComponentRemoved, an entity in both neither EntityAdded nor EntityRemoved.
C32_EntityDiff ==
    Subsequent =>
       /\ \A e \in IdsOf(Fed.entities) \ IdsOf(Before.entities) :
             /\ Cardinality(EntityChanges("EntityAdded", e)) = 1
             /\ Cardinality(EntityChanges("EntityRemoved", e)) = 0
             /\ Cardinality(EntityChanges("ComponentAdded", e))
                   = Len(ItemOf(Fed.entities, e).components)
             /\ \A c \in IdsOf(ItemOf(Fed.entities, e).components) :
                   /\ Cardinality(ComponentChanges(e, c)) = 1
                   /\ \A j \in ComponentChanges(e, c) :
                         delta.changes[j] =
                            ComponentAdded(e, c, ItemOf(ItemOf(Fed.entities, e).components, c).data)
       /\ \A e \in IdsOf(Before.entities) \ IdsOf(Fed.entities) :
             /\ Cardinality(EntityChanges("EntityRemoved", e)) = 1
             /\ Cardinality(EntityChanges("EntityAdded", e)) = 0
             /\ Cardinality(EntityChanges("ComponentRemoved", e)) = 0
       /\ \A e \in IdsOf(Before.entities) \cap IdsOf(Fed.entities) :
             /\ Cardinality(EntityChanges("EntityAdded", e)) = 0
             /\ Cardinality(EntityChanges("EntityRemoved", e)) = 0

\* An entity with two components replaced an entity that had components.
C32_Witness ==
    /\ Subsequent
    /\ \E e \in IdsOf(Fed.entities) \ IdsOf(Before.entities) :
          Len(ItemOf(Fed.entities, e).components) = 2
    /\ \E e \in IdsOf(Before.entities) \ IdsOf(Fed.entities) :
          Len(ItemOf(Before.entities, e).components) > 0

\* Equality of two components as the specification defines it: same id, same
\* variant, and byte-equal, string-equal or map-equal payloads.
SameComponent(a, b) ==
    /\ a.id = b.id
    /\ a.data.tag = b.data.tag
    /\ CASE a.data.tag = "Binary" -> a.data.bin = b.data.bin
         [] a.data.tag = "Json" -> a.data.json = b.data.json
         [] a.data.tag = "Structured" ->
               /\ DOMAIN a.data.fields = DOMAIN b.data.fields
               /\ \A f \in DOMAIN a.data.fields :
                     FieldValueEq(a.data.fields[f], b.data.fields[f])

SharedEntities == IdsOf(Before.entities) \cap IdsOf(Fed.entities)

OldComponents(e) == ItemOf(Before.entities, e).components
NewComponents(e) == ItemOf(Fed.entities, e).components

\* C33: for an entity in both snapshots, a component only in the current one
\* gives exactly one ComponentAdded, one only in the previous one exactly one
\* ComponentRemoved, one in both and unequal exactly one change, either
\* ComponentUpdated with the new data or FieldsUpdated with a non-empty
\* list, and one in both and equal no change.
C33_ComponentDiff ==
    Subsequent =>
       \A e \in SharedEntities :
          /\ \A c \in IdsOf(NewComponents(e)) \ IdsOf(OldComponents(e)) :
                /\ Cardinality(ComponentChanges(e, c)) = 1
                /\ \A j \in ComponentChanges(e, c) :
                      delta.changes[j] = ComponentAdded(e, c, ItemOf(NewComponents(e), c).data)
          /\ \A c \in IdsOf(OldComponents(e)) \ IdsOf(NewComponents(e)) :
                /\ Cardinality(ComponentChanges(e, c)) = 1
                /\ \A j \in ComponentChanges(e, c) :
                      delta.changes[j] = ComponentRemoved(e, c)
          /\ \A c \in IdsOf(OldComponents(e)) \cap IdsOf(NewComponents(e)) :
                IF SameComponent(ItemOf(OldComponents(e), c), ItemOf(NewComponents(e), c))
                THEN ComponentChanges(e, c) = {}
                ELSE /\ Cardinality(ComponentChanges(e, c)) = 1
                     /\ \A j \in ComponentChanges(e, c) :
                           \/ delta.changes[j] =
                                 ComponentUpdated(e, c, ItemOf(NewComponents(e), c).data)
                           \/ /\ delta.changes[j].type = "FieldsUpdated"
                              /\ delta.changes[j].fields # <<>>

\* An entity kept one component unchanged and lost another.
C33_Witness ==
    /\ Subsequent
    /\ \E e \in SharedEntities :
          /\ \E c \in IdsOf(OldComponents(e)) \ IdsOf(NewComponents(e)) : TRUE
          /\ \E c \in IdsOf(OldComponents(e)) \cap IdsOf(NewComponents(e)) :
                SameComponent(ItemOf(OldComponents(e), c), ItemOf(NewComponents(e), c))

\* The previous and the current data of the component a change is about.
OldData(ch) == ItemOf(OldComponents(ch.entity_id), ch.component_id).data
NewData(ch) == ItemOf(NewComponents(ch.entity_id), ch.component_id).data

BothTagged(ch, tag) == OldData(ch).tag = tag /\ NewData(ch).tag = tag

BothJsonObjects(ch) ==
    /\ BothTagged(ch, "Json")
    /\ OldData(ch).json.kind = "object"
    /\ NewData(ch).json.kind = "object"

UpdateChanges ==
    {j \in DOMAIN delta.changes : delta.changes[j].type \in {"ComponentUpdated", "FieldsUpdated"}}

\* C34 as stated: a changed component is reported as FieldsUpdated only when
\* field compression is enabled and both sides are Structured, and as
\* ComponentUpdated in every other case.
C34_FieldsUpdatedStructuredOnly ==
    Subsequent =>
       \A j \in UpdateChanges :
          delta.changes[j].type = "FieldsUpdated"
             <=> (enabled /\ BothTagged(delta.changes[j], "Structured"))

\* C34 amended: a changed component is reported as FieldsUpdated only when
\* field compression is enabled and both sides are Structured or both are
\* Json texts of JSON objects; with compression disabled, Binary data or a
\* Json text that is no object on either side, or different variants, it is
\* reported as ComponentUpdated; two Structured sides with compression
\* enabled always give FieldsUpdated.
C34_FieldsUpdatedWhenDiffable ==
    Subsequent =>
       \A j \in UpdateChanges :
          /\ delta.changes[j].type = "FieldsUpdated"
                => /\ enabled
                   /\ BothTagged(delta.changes[j], "Structured")
                         \/ BothJsonObjects(delta.changes[j])
          /\ (enabled /\ BothTagged(delta.changes[j], "Structured"))
                => delta.changes[j].type = "FieldsUpdated"

\* With compression enabled a Json object changed a member and was reported
\* as FieldsUpdated.
C34_Witness ==
    /\ Subsequent
    /\ enabled
    /\ \E j \in UpdateChanges :
          /\ delta.changes[j].type = "FieldsUpdated"
          /\ BothJsonObjects(delta.changes[j])

(***************************************************************************)
(* Claims about MessageHeader.sequence (SpecSeq)                           *)
(***************************************************************************)
\* C24: messages created one after another in a single thread of a process
\* get strictly increasing sequence values.
C24_SequenceIncreases ==
    DOMAIN seq_threads = {1} =>
       \A i, j \in DOMAIN seq_created :
          i < j => seq_created[i].sequence < seq_created[j].sequence

\* One thread created two messages of different types.
C24_Witness ==
    /\ DOMAIN seq_threads = {1}
    /\ Len(seq_created) = 2
    /\ seq_created[1].msg_type # seq_created[2].msg_type

\* C25: the increment of the process-global counter is serialized: with two
\* threads creating messages concurrently no two messages get the same
\* sequence value and no increment is lost.
C25_SequenceSerialized ==
    /\ \A i, j \in DOMAIN seq_created :
          i # j => seq_created[i].sequence # seq_created[j].sequence
    /\ (\A t \in DOMAIN seq_threads : seq_threads[t].pc = "idle")
          => SEQUENCE_COUNTER = Len(seq_created)

(***************************************************************************)
(* Claims about two managers and the frames between them (SpecLink)        *)
(***************************************************************************)
\* A send_delta call that got as far as create_delta.
ReachedCompressor(c) == c.op = "send_delta" /\ c.delta # <<>>

ReturnedEvent(c, type) == c.op = "receive" /\ c.event # <<>> /\ c.event[1].type = type

\* d adds every entity and every component of the snapshot and nothing else,
\* from base 0.
IsInitialDelta(d, snapshot) ==
    /\ d.base_timestamp = 0
    /\ \A k \in DOMAIN d.changes : d.changes[k].type \in {"EntityAdded", "ComponentAdded"}
    /\ Len(d.changes) = Len(snapshot.entities) + CountComponents(snapshot.entities)
    /\ ApplyChanges(EmptyWorld, d.changes) = ContentOf(snapshot.entities)

\* C21: after receive() returned SyncEvent::Snapshot, the manager's next
\* send_delta(S) computes the initial delta of S, whatever snapshots the
\* manager was fed before.
C21_SnapshotResetsCompressor ==
    \A i, j \in DOMAIN lk_calls :
       (/\ i < j
        /\ lk_calls[i].manager = lk_calls[j].manager
        /\ ReturnedEvent(lk_calls[i], "Snapshot")
        /\ ReachedCompressor(lk_calls[j])
        /\ \A k \in (i + 1)..(j - 1) :
              ~(lk_calls[k].manager = lk_calls[j].manager /\ ReachedCompressor(lk_calls[k])))
       => /\ IsInitialDelta(lk_calls[j].delta[1], lk_calls[j].snapshot[1])
          /\ lk_calls[j].message # <<>>
                => /\ lk_calls[j].message[1].payload.changes = lk_calls[j].delta[1].changes
                   /\ lk_calls[j].message[1].payload.base_timestamp = 0

\* A manager that had been fed a snapshot received a Snapshot and then sent
\* the delta of another snapshot.
C21_Witness ==
    \E i \in DOMAIN lk_calls :
       /\ i + 1 \in DOMAIN lk_calls
       /\ lk_calls[i].manager = lk_calls[i + 1].manager
       /\ ReturnedEvent(lk_calls[i], "Snapshot")
       /\ lk_calls[i].before.previous_snapshot # <<>>
       /\ lk_calls[i + 1].op = "send_delta"
       /\ lk_calls[i + 1].message # <<>>
       /\ lk_calls[i + 1].snapshot # lk_calls[i].before.previous_snapshot

\* A receive that found nothing.
Quiet(c) == c.op = "receive" /\ c.result = "Ok" /\ c.event = <<>>

\* A receive called with a frame waiting in the manager's receive buffer.
Delivered(c, m) ==
    /\ c.manager = m
    /\ c.op = "receive"
    /\ c.before.transport.receive_buffer # <<>>

QuietBetween(i, j) == \A k \in (i + 1)..(j - 1) : Quiet(lk_calls[k])

\* C22: with nothing else pending, after A.ping() the receive() of B that
\* gets the frame returns Ping and has handed exactly one Pong to B's
\* transport, and the receive() of A that gets that frame returns Pong.
C22_PingPong ==
    \A i, j \in DOMAIN lk_calls :
       (/\ i < j
        /\ lk_calls[i].manager = "A"
        /\ lk_calls[i].op = "ping"
        /\ lk_calls[i].result = "Ok"
        /\ lk_calls[i].pending = 0
        /\ QuietBetween(i, j)
        /\ Delivered(lk_calls[j], "B"))
       => /\ lk_calls[j].result = "Ok"
          /\ ReturnedEvent(lk_calls[j], "Ping")
          /\ Len(lk_calls[j].after.transport.send_buffer)
                = Len(lk_calls[j].before.transport.send_buffer) + 1
          /\ lk_calls[j].after.transport.send_buffer[
                Len(lk_calls[j].after.transport.send_buffer)].message.msg_type = "Pong"
          /\ \A k \in DOMAIN lk_calls :
                (j < k /\ QuietBetween(j, k) /\ Delivered(lk_calls[k], "A"))
                => /\ lk_calls[k].result = "Ok"
                   /\ ReturnedEvent(lk_calls[k], "Pong")

\* A pinged, B received the Ping, A received the Pong.
C22_Witness ==
    /\ Len(lk_calls) = 3
    /\ lk_calls[1].manager = "A" /\ lk_calls[1].op = "ping" /\ lk_calls[1].pending = 0
    /\ lk_calls[2].manager = "B" /\ ReturnedEvent(lk_calls[2], "Ping")
    /\ lk_calls[3].manager = "A" /\ ReturnedEvent(lk_calls[3], "Pong")

\* The change updates fields of a component the world w does not have.
MissingTarget(w, ch) ==
    /\ ch.type = "FieldsUpdated"
    /\ ~(ch.entity_id \in DOMAIN w /\ ch.component_id \in DOMAIN w[ch.entity_id])

\* C23: a receive() that gets a Delta with a FieldsUpdated change for an
\* (entity, component) absent from the receiver's state reports
\* InvalidMessage and delivers no event.
C23_FieldsUpdatedValidated ==
    \A i \in DOMAIN lk_calls :
       (/\ lk_calls[i].op = "receive"
        /\ lk_calls[i].before.transport.connected
        /\ lk_calls[i].before.transport.receive_buffer # <<>>
        /\ Head(lk_calls[i].before.transport.receive_buffer).format
              = lk_calls[i].before.transport.format
        /\ Head(lk_calls[i].before.transport.receive_buffer).message.msg_type = "Delta"
        /\ \E k \in DOMAIN Head(lk_calls[i].before.transport.receive_buffer).message.payload.changes :
              MissingTarget(lk_calls[i].world,
                            Head(lk_calls[i].before.transport.receive_buffer).message.payload.changes[k]))
       => /\ lk_calls[i].result = "InvalidMessage"
          /\ lk_calls[i].event = <<>>

ClosedBefore(m, j) ==
    \E i \in 1..(j - 1) : lk_calls[i].manager = m /\ lk_calls[i].op = "close"

\* C26: once close() was called on a manager, is_connected() is false for
\* good, every later send_snapshot, send_delta, receive, ping,
\* request_snapshot and send_ack returns ConnectionClosed, and a later
\* close() returns Ok and changes nothing.
C26_ClosedIsAbsorbing ==
    /\ \A m \in DOMAIN link :
          ClosedBefore(m, Len(lk_calls) + 1) => ~link[m].transport.connected
    /\ \A j \in DOMAIN lk_calls :
          ClosedBefore(lk_calls[j].manager, j)
          => IF lk_calls[j].op = "close"
             THEN lk_calls[j].result = "Ok" /\ lk_calls[j].after = lk_calls[j].before
             ELSE /\ lk_calls[j].result = "ConnectionClosed"
                  /\ lk_calls[j].event = <<>>
                  /\ lk_calls[j].after.transport = lk_calls[j].before.transport

\* A manager was closed, then asked to receive, then closed again.
C26_Witness ==
    /\ Len(lk_calls) = 3
    /\ \A i \in 1..3 : lk_calls[i].manager = lk_calls[1].manager
    /\ lk_calls[1].op = "close"
    /\ lk_calls[2].op = "receive"
    /\ lk_calls[3].op = "close"

EventOf(msg_type) == IF msg_type = "RequestSnapshot" THEN "SnapshotRequested" ELSE msg_type

\* C27: a receive() that finds a frame removes exactly the first frame and
\* keeps the others in order; it returns the codec's error when the frame
\* does not decode and the frame's message otherwise, so the receive() after
\* a failed one gets the following frame.
C27_BadFrameConsumed ==
    \A i \in DOMAIN lk_calls :
       (/\ lk_calls[i].op = "receive"
        /\ lk_calls[i].before.transport.connected
        /\ lk_calls[i].before.transport.receive_buffer # <<>>)
       => /\ lk_calls[i].after.transport.receive_buffer
                = Tail(lk_calls[i].before.transport.receive_buffer)
          /\ IF Head(lk_calls[i].before.transport.receive_buffer).format
                   # lk_calls[i].before.transport.format
             THEN /\ lk_calls[i].result \in {"Json", "MsgPackDecode"}
                  /\ lk_calls[i].event = <<>>
             ELSE /\ lk_calls[i].result = "Ok"
                  /\ ReturnedEvent(lk_calls[i],
                        EventOf(Head(lk_calls[i].before.transport.receive_buffer).message.msg_type))

\* A receive failed on the first of three frames, the next receive returned
\* the second frame's message and left the third.
C27_Witness ==
    \E i \in DOMAIN lk_calls :
       /\ i + 1 \in DOMAIN lk_calls
       /\ lk_calls[i].manager = lk_calls[i + 1].manager
       /\ lk_calls[i].op = "receive"
       /\ lk_calls[i].result = "MsgPackDecode"
       /\ Len(lk_calls[i].before.transport.receive_buffer) = 3
       /\ ReturnedEvent(lk_calls[i + 1], "Ack")
       /\ lk_calls[i + 1].after.transport.receive_buffer
             = SubSeq(lk_calls[i].before.transport.receive_buffer, 3, 3)

(***************************************************************************)
(* Claims about the messages that bypass the rate limiter (SpecControl)    *)
(***************************************************************************)
\* The limiter of the manager would reject a message at the time of the call.
LimiterFull(c) ==
    /\ c.before.rate_limiter # <<>>
    /\ limiter_check(c.before.rate_limiter, now).result # "Ok"

\* The last frame of the manager's send buffer after the call is the message
\* in the transport's format, behind the frames that were there before.
HandedToTransport(c, msg_type) ==
    /\ Len(c.after.transport.send_buffer) = Len(c.before.transport.send_buffer) + 1
    /\ SubSeq(c.after.transport.send_buffer, 1, Len(c.before.transport.send_buffer))
          = c.before.transport.send_buffer
    /\ c.after.transport.send_buffer[Len(c.after.transport.send_buffer)].format
          = c.before.transport.format
    /\ c.after.transport.send_buffer[Len(c.after.transport.send_buffer)].message.msg_type
          = msg_type

ControlType(op) ==
    IF op = "request_snapshot" THEN "RequestSnapshot"
    ELSE IF op = "send_ack" THEN "Ack" ELSE "Ping"

LimiterAndCountersKept(c) ==
    /\ c.after.rate_limiter = c.before.rate_limiter
    /\ c.after.last_sync = c.before.last_sync
    /\ c.after.sync_count = c.before.sync_count
    /\ c.after.reconnect_attempts = c.before.reconnect_attempts

\* C38: request_snapshot, send_ack, ping and the Pong that receive sends for
\* a Ping hand their message to the transport whatever the rate limiter
\* holds, leave the limiter (its counters and histories) as it was, and
\* leave last_sync, sync_count and reconnect_attempts unchanged.
C38_ControlBypassesLimiter ==
    \A i \in DOMAIN lk_calls :
       /\ lk_calls[i].op \in {"request_snapshot", "send_ack", "ping"}
             => /\ LimiterAndCountersKept(lk_calls[i])
                /\ lk_calls[i].before.transport.connected
                      => /\ lk_calls[i].result = "Ok"
                         /\ HandedToTransport(lk_calls[i], ControlType(lk_calls[i].op))
       /\ lk_calls[i].op = "receive"
             => /\ LimiterAndCountersKept(lk_calls[i])
                /\ ReturnedEvent(lk_calls[i], "Ping")
                      => HandedToTransport(lk_calls[i], "Pong")

\* A manager whose limiter was full answered a Ping.
C38_Witness ==
    \E i \in DOMAIN lk_calls :
       /\ ReturnedEvent(lk_calls[i], "Ping")
       /\ LimiterFull(lk_calls[i])
       /\ lk_calls[i].before.rate_limiter[1].total_messages = 1
       /\ lk_calls[i].message # <<>>

(***************************************************************************)
(* Claims about what a receiver of the manager's messages holds (SpecPlain) *)
(***************************************************************************)
\* The world of a receiver that got the messages of the calls in order,
\* replacing its world on a Snapshot and applying a Delta.
RECURSIVE ReceiverWorld(_)
ReceiverWorld(calls) ==
    IF calls = <<>> THEN EmptyWorld
    ELSE LET c == calls[Len(calls)]
             w == ReceiverWorld(SubSeq(calls, 1, Len(calls) - 1))
         IN  IF c.message = <<>> THEN w
             ELSE IF c.message[1].msg_type = "Snapshot"
             THEN ContentOf(c.message[1].payload.entities)
             ELSE IF c.message[1].msg_type = "Delta"
             THEN ApplyChanges(w, c.message[1].payload.changes)
             ELSE w

\* C39: with rate limiting and field compression disabled, after every
\* successful send_snapshot or send_delta the receiver of the manager's
\* messages holds the content of the snapshot passed to that call.
C39_LinkConvergence ==
    \A i \in DOMAIN sm_calls :
       (sm_calls[i].op \in {"send_snapshot", "send_delta"} /\ sm_calls[i].result = "Ok")
       => ReceiverWorld(SubSeq(sm_calls, 1, i)) = ContentOf(sm_calls[i].snapshot.entities)

(***************************************************************************)
(* Claims about the stream framing (SpecStream)                            *)
(***************************************************************************)
\* What try_read_message has returned so far, as decoded messages.
ReadMessages == [i \in DOMAIN st_read |-> st_read[i].message[1]]

\* Every return of try_read_message so far was a message.
AllDecoded == \A i \in DOMAIN st_read : st_read[i].result = "Ok"

\* The buffer does not yet hold the whole next frame: fewer than four bytes,
\* or fewer than the four bytes and the body they announce.
FrameIncomplete(buffer) ==
    \/ Len(buffer) < 4
    \/ Len(buffer) < 4 + from_le_bytes(SubSeq(buffer, 1, 4))

\* Everything written was flushed and fed, and the last call was a
\* try_read_message that found nothing more.
Drained ==
    /\ stream_serializer.buffer = <<>>
    /\ stream_wire = <<>>
    /\ st_last # <<>>
    /\ st_last[1].op = "try_read_message"
    /\ st_last[1].result = "Ok"
    /\ st_last[1].message = <<>>

\* C31: the messages written and flushed come back from try_read_message the
\* same and in the same order whatever the chunking -- what was read is
\* always a prefix of what was written, and all of it once the bytes are
\* drained -- and while the next frame is incomplete try_read_message
\* returns none and leaves the buffer as it was.
C31_StreamRoundTrip ==
    /\ AllDecoded
    /\ Len(st_read) <= Len(st_written)
    /\ AllDecoded /\ Len(st_read) <= Len(st_written)
          => ReadMessages = SubSeq(st_written, 1, Len(st_read))
    /\ Drained => Len(st_read) = Len(st_written)
    /\ (st_last # <<>> /\ st_last[1].op = "try_read_message"
           /\ FrameIncomplete(st_last[1].before.buffer))
          => /\ st_last[1].result = "Ok"
             /\ st_last[1].message = <<>>
             /\ stream_deserializer = st_last[1].before

(***************************************************************************)
(* Claims about the registry's locks (SpecLocks, SpecLocksFair)            *)
(***************************************************************************)
\* The guards a thread holds: nothing, one lock, or schemas and then
\* version_history; a reading call holds at most one.
LockOrder ==
    \A t \in LockThreads :
       /\ threads[t].held \in {<<>>, <<"schemas">>, <<"version_history">>,
                               <<"schemas", "version_history">>}
       /\ threads[t].kind \notin {"register", "clear"} => Len(threads[t].held) <= 1
       /\ (lock_schemas.writer = t \/ t \in lock_schemas.readers)
             <=> (\E i \in DOMAIN threads[t].held : threads[t].held[i] = "schemas")
       /\ (lock_history.writer = t \/ t \in lock_history.readers)
             <=> (\E i \in DOMAIN threads[t].held : threads[t].held[i] = "version_history")

\* C40: whatever the threads call on the clones of one registry, every call
\* eventually returns; a thread holding both locks took schemas first and
\* version_history second, and a reading call holds a single lock.
C40_DeadlockFree ==
    /\ []LockOrder
    /\ \A t \in LockThreads : \A n \in 0..(MaxLockCalls - 1) :
          (threads[t].calls = n) ~> (threads[t].calls = n + 1)

\* A register that already returned once holds schemas and waits for
\* version_history, which a get_version_history is reading, while a clear
\* waits for schemas.
C40_Witness ==
    /\ threads # <<>>
    /\ DOMAIN threads = LockThreads
    /\ \E r \in LockThreads, c \in LockThreads, h \in LockThreads :
          /\ threads[r].kind = "register" /\ threads[r].calls = 1
          /\ threads[r].held = <<"schemas">>
          /\ threads[c].kind = "clear" /\ threads[c].held = <<>>
          /\ threads[h].kind = "get_version_history"
          /\ lock_history.readers = {h}

====
